---- MODULE Spec2Model ----
(***************************************************************************)
(* Patient waitlist prioritisation (peppozx/luma-health-challenge).        *)
(*                                                                         *)
(* Numbers.  JavaScript numbers are IEEE-754 doubles.  Scores are modelled *)
(* in exact rational arithmetic (records [n, d] in lowest terms, d > 0),   *)
(* so a double's rounding error (about 1e-15) is not represented; it can   *)
(* matter only at an exact tie of toFixed(2).  The calls that compare the  *)
(* results of differently weighted services, where such ties decide, use   *)
(* the binary64 arithmetic defined below instead.  The transcendental      *)
(* library functions used by the haversine formula (Math.sin, Math.cos,    *)
(* Math.sqrt, Math.atan2) are modelled in fixed point with FP units per    *)
(* 1.0.                                                                    *)
(***************************************************************************)
EXTENDS Integers, Sequences, FiniteSets, TLC

(***************************************************************************)
(* Exact rationals                                                         *)
(***************************************************************************)
Abs(x) == IF x < 0 THEN -x ELSE x

Sign(x) == IF x < 0 THEN -1 ELSE IF x > 0 THEN 1 ELSE 0

RECURSIVE Gcd(_, _)
Gcd(a, b) == IF b = 0 THEN a ELSE Gcd(b, a % b)

\* The rational n/d in lowest terms with a positive denominator.
Rat(n, d) ==
  LET g == Gcd(Abs(n), Abs(d))
      s == IF d < 0 THEN -1 ELSE 1
  IN [n |-> s * (n \div g), d |-> s * (d \div g)]

RInt(k) == [n |-> k, d |-> 1]

RAdd(x, y) == Rat(x.n * y.d + y.n * x.d, x.d * y.d)

RSub(x, y) == Rat(x.n * y.d - y.n * x.d, x.d * y.d)

RMul(x, y) ==
  LET a == Rat(x.n, y.d)
      b == Rat(y.n, x.d)
  IN Rat(a.n * b.n, a.d * b.d)

RDiv(x, y) == RMul(x, [n |-> Sign(y.n) * y.d, d |-> Abs(y.n)])

RLt(x, y) == x.n * y.d < y.n * x.d

RLe(x, y) == x.n * y.d <= y.n * x.d

RMax(x, y) == IF RLt(x, y) THEN y ELSE x

RMin(x, y) == IF RLt(y, x) THEN y ELSE x

\* Number(x.toFixed(digits=2)): the nearest multiple of 1/100, a tie rounded
\* away from zero.
toFixed2(x) ==
  LET m == 100 * Abs(x.n)
      q == m \div x.d
      r == m % x.d
      h == IF 2 * r >= x.d THEN q + 1 ELSE q
  IN Rat(Sign(x.n) * h, 100)

(***************************************************************************)
(* IEEE-754 binary64 arithmetic                                            *)
(*                                                                         *)
(* The operators +, -, * and / of JavaScript numbers, correctly rounded    *)
(* (round to nearest, ties to even).  A natural number is a sequence of    *)
(* limbs below Limb, least significant first, without leading zeros; a     *)
(* non-negative double is [m, e] with value m * 2^e, where m has exactly   *)
(* 53 bits, or m = <<>> (and e = 0) for zero.  Negative numbers, infinities*)
(* and subnormals are not represented: the score arithmetic does not       *)
(* produce them for ages up to 181 and weights that are not all zero.      *)
(***************************************************************************)
Limb == 16384

LimbBits == 14

RECURSIVE NTrim(_)
NTrim(a) ==
  IF a = <<>> \/ a[Len(a)] # 0 THEN a ELSE NTrim(SubSeq(a, 1, Len(a) - 1))

RECURSIVE NFromInt(_)
NFromInt(k) == IF k = 0 THEN <<>> ELSE << k % Limb >> \o NFromInt(k \div Limb)

RECURSIVE NToInt(_)
NToInt(a) == IF a = <<>> THEN 0 ELSE a[1] + Limb * NToInt(Tail(a))

NLimb(a, i) == IF i \in DOMAIN a THEN a[i] ELSE 0

RECURSIVE NAddFrom(_, _, _, _)
NAddFrom(a, b, i, carry) ==
  IF i > Len(a) /\ i > Len(b)
  THEN IF carry = 0 THEN <<>> ELSE << carry >>
  ELSE LET s == NLimb(a, i) + NLimb(b, i) + carry
       IN << s % Limb >> \o NAddFrom(a, b, i + 1, s \div Limb)

NAdd(a, b) == NAddFrom(a, b, 1, 0)

RECURSIVE NSubFrom(_, _, _, _)
NSubFrom(a, b, i, borrow) ==
  IF i > Len(a) THEN <<>>
  ELSE LET d == a[i] - NLimb(b, i) - borrow
       IN << d % Limb >> \o NSubFrom(a, b, i + 1, IF d < 0 THEN 1 ELSE 0)

\* a - b for a >= b.
NSub(a, b) == NTrim(NSubFrom(a, b, 1, 0))

RECURSIVE NLessFrom(_, _, _)
NLessFrom(a, b, i) ==
  IF i = 0 THEN FALSE
  ELSE IF a[i] # b[i] THEN a[i] < b[i]
  ELSE NLessFrom(a, b, i - 1)

NLess(a, b) ==
  IF Len(a) # Len(b) THEN Len(a) < Len(b) ELSE NLessFrom(a, b, Len(a))

RECURSIVE NColumn(_, _, _, _)
NColumn(a, b, k, i) ==
  IF i > Len(a) \/ i > k THEN 0
  ELSE a[i] * NLimb(b, k + 1 - i) + NColumn(a, b, k, i + 1)

RECURSIVE NMulFrom(_, _, _, _)
NMulFrom(a, b, k, carry) ==
  IF k > Len(a) + Len(b) THEN <<>>
  ELSE LET s == NColumn(a, b, k, 1) + carry
       IN << s % Limb >> \o NMulFrom(a, b, k + 1, s \div Limb)

\* a * b, for a of at most 4 limbs (a column sum stays below 2^31).
NMul(a, b) == NTrim(NMulFrom(a, b, 1, 0))

\* a * 2^s
NShiftLeft(a, s) ==
  LET q == s \div LimbBits
      r == s % LimbBits
  IN NTrim([i \in 1..(Len(a) + q + 1) |->
              ((NLimb(a, i - q) * 2^r) % Limb)
              + (NLimb(a, i - q - 1) \div 2^(LimbBits - r))])

\* floor(a / 2^s)
NShiftRight(a, s) ==
  LET q == s \div LimbBits
      r == s % LimbBits
  IN IF Len(a) <= q THEN <<>>
     ELSE NTrim([i \in 1..(Len(a) - q) |->
                   (a[i + q] \div 2^r)
                   + ((NLimb(a, i + q + 1) % 2^r) * 2^(LimbBits - r))])

\* The number of bits of a (0 for zero).
NBitLen(a) ==
  IF a = <<>> THEN 0
  ELSE (Len(a) - 1) * LimbBits
       + CHOOSE k \in 1..LimbBits : 2^(k - 1) <= a[Len(a)] /\ a[Len(a)] < 2^k

DZero == [m |-> <<>>, e |-> 0]

\* The double nearest to (n + f) * 2^e, where 0 <= f < 1 and sticky tells
\* whether f > 0 (then n has at least 55 bits); a tie goes to the even one.
DRound(n, e, sticky) ==
  LET len == NBitLen(n)
      s == len - 53
  IN IF n = <<>> THEN DZero
     ELSE IF s <= 0 THEN [m |-> NShiftLeft(n, -s), e |-> e + s]
     ELSE LET kept == NShiftRight(n, s)
              rest == NSub(n, NShiftLeft(kept, s))
              half == NShiftLeft(<< 1 >>, s - 1)
              up == \/ NLess(half, rest)
                    \/ rest = half /\ (sticky \/ kept[1] % 2 = 1)
              m1 == IF up THEN NAdd(kept, << 1 >>) ELSE kept
          IN IF NBitLen(m1) > 53
             THEN [m |-> NShiftRight(m1, 1), e |-> e + s + 1]
             ELSE [m |-> m1, e |-> e + s]

\* The double of a non-negative integer below 2^31.
DInt(k) == DRound(NFromInt(k), 0, FALSE)

DMinExp(x, y) == IF x.e < y.e THEN x.e ELSE y.e

\* x + y
DAdd(x, y) ==
  IF x.m = <<>> THEN y
  ELSE IF y.m = <<>> THEN x
  ELSE DRound(NAdd(NShiftLeft(x.m, x.e - DMinExp(x, y)),
                   NShiftLeft(y.m, y.e - DMinExp(x, y))),
              DMinExp(x, y), FALSE)

\* x - y for x >= y
DSub(x, y) ==
  IF y.m = <<>> THEN x
  ELSE DRound(NSub(NShiftLeft(x.m, x.e - DMinExp(x, y)),
                   NShiftLeft(y.m, y.e - DMinExp(x, y))),
              DMinExp(x, y), FALSE)

\* x * y
DMul(x, y) ==
  IF x.m = <<>> \/ y.m = <<>> THEN DZero
  ELSE DRound(NMul(x.m, y.m), x.e + y.e, FALSE)

\* Long division in base Limb by a divisor d of 4 limbs whose top limb is
\* at least Limb / 2.  A quotient digit is estimated from the leading limbs
\* (never too large) and then corrected.
RECURSIVE NDigitFix(_, _, _)
NDigitFix(r, d, q) ==
  IF NLess(r, d) THEN [q |-> q, r |-> r] ELSE NDigitFix(NSub(r, d), d, q + 1)

NDigitFrom(r, d, estimate) ==
  NDigitFix(NSub(r, NMul(NFromInt(estimate), d)), d, estimate)

\* floor(r / d) and the remainder, for r < d * Limb.
NDigit(r, d) ==
  NDigitFrom(r, d, (NLimb(r, 5) * Limb + NLimb(r, 4)) \div (d[4] + 1))

NTimesLimb(r) == IF r = <<>> THEN <<>> ELSE << 0 >> \o r

NPrepend(digit, rest) == [q |-> rest.q \o << digit.q >>, r |-> rest.r]

\* k more digits of the quotient r / d, r < d: [q, r] with
\* Limb^k * r0 = q * d + r.
RECURSIVE NLongDiv(_, _, _)
NLongDivNext(digit, d, k) == NPrepend(digit, NLongDiv(digit.r, d, k))

NLongDiv(r, d, k) ==
  IF k = 0 THEN [q |-> <<>>, r |-> r]
  ELSE NLongDivNext(NDigit(NTimesLimb(r), d), d, k - 1)

\* floor(a * Limb^4 / d) and whether the division left a remainder, for
\* a < 2 d.
NQuotient(a, d) ==
  IF NLess(a, d) THEN NLongDiv(a, d, 4)
  ELSE NPrepend([q |-> 1], NLongDiv(NSub(a, d), d, 4))

DDivRound(quotient, e) == DRound(NTrim(quotient.q), e, quotient.r # <<>>)

\* x / y for y > 0
DDiv(x, y) ==
  IF x.m = <<>> THEN DZero
  ELSE DDivRound(NQuotient(NShiftLeft(x.m, 3), NShiftLeft(y.m, 3)),
                 x.e - y.e - 4 * LimbBits)

DLess(x, y) ==
  IF y.m = <<>> THEN FALSE
  ELSE IF x.m = <<>> THEN TRUE
  ELSE IF x.e # y.e THEN x.e < y.e
  ELSE NLess(x.m, y.m)

DMax(x, y) == IF DLess(x, y) THEN y ELSE x

DMin(x, y) == IF DLess(y, x) THEN y ELSE x

\* Number(x.toFixed(2)) of a double x below 2^31 / 100: n / 100 for the
\* integer n nearest to the exact value of 100 x, the larger one at a tie.
toFixed2D(x) ==
  IF x.m = <<>> THEN Rat(0, 100)
  ELSE Rat(NToInt(NShiftRight(NAdd(NMul(<< 100 >>, x.m), NShiftLeft(<< 1 >>, -x.e - 1)),
                              -x.e)),
           100)

(***************************************************************************)
(* Fixed-point model of the Math library                                   *)
(***************************************************************************)
\* Units per 1.0 of a fixed-point number, and its square root.
FPRoot == 10 ^ 4

FP == FPRoot * FPRoot

\* Math.PI, Math.PI / 2 and Math.PI / 180 in fixed point.
MathPI == 314159265

HalfPI == MathPI \div 2

RadPerDegree == MathPI \div 180

\* x * y for fixed-point x, y >= 0, by limbs of FPRoot so that no
\* intermediate product exceeds 32 bits.
FMulPos(x, y) ==
  LET x1 == x \div FPRoot
      x0 == x % FPRoot
      y1 == y \div FPRoot
      y0 == y % FPRoot
  IN x1 * y1 + (x1 * y0 + x0 * y1) \div FPRoot + (x0 * y0) \div FP

FMul(x, y) == Sign(x) * Sign(y) * FMulPos(Abs(x), Abs(y))

\* x / 2, exact up to one unit, symmetric in the sign of x.
FHalf(x) == Sign(x) * (Abs(x) \div 2)

\* Taylor series of sine on [0, pi/2] in Horner form; x2 is x * x.
SinHorner(x, x2) ==
  LET t5 == FP - FMulPos(x2, FP) \div 110
      t4 == FP - FMulPos(x2, t5) \div 72
      t3 == FP - FMulPos(x2, t4) \div 42
      t2 == FP - FMulPos(x2, t3) \div 20
      t1 == FP - FMulPos(x2, t2) \div 6
  IN FMulPos(x, t1)

SinSeries(x) == SinHorner(x, FMulPos(x, x))

\* Math.sin for |x| <= 2 pi.
MathSin(x) ==
  LET a == Abs(x)
      b == IF a > MathPI THEN a - MathPI ELSE a
      c == IF b > HalfPI THEN MathPI - b ELSE b
      s == IF a > MathPI THEN -1 ELSE 1
  IN Sign(x) * s * SinSeries(c)

\* Math.cos for |x| <= pi.
MathCos(x) ==
  LET a == Abs(x)
  IN IF a > HalfPI THEN -SinSeries(a - HalfPI) ELSE SinSeries(HalfPI - a)

\* Math.sqrt for 0 <= x <= 1: the smallest s with s * s >= x, by bisection
\* (lo * lo < x <= hi * hi throughout).
RECURSIVE SqrtBisect(_, _, _)
SqrtBisect(x, lo, hi) ==
  IF hi - lo <= 1 THEN hi
  ELSE LET mid == (lo + hi) \div 2
       IN IF FMulPos(mid, mid) >= x
          THEN SqrtBisect(x, lo, mid)
          ELSE SqrtBisect(x, mid, hi)

MathSqrt(x) ==
  IF x <= 0 THEN 0 ELSE IF x >= FP THEN FP ELSE SqrtBisect(x, 0, FP)

\* Math.atan2(y, x) for y, x >= 0: the largest angle t in [0, pi/2] with
\* sin(t) * x <= cos(t) * y, by bisection.
RECURSIVE AtanBisect(_, _, _, _)
AtanBisect(y, x, lo, hi) ==
  IF hi - lo <= 1 THEN lo
  ELSE LET mid == (lo + hi) \div 2
       IN IF FMulPos(MathSin(mid), x) <= FMulPos(MathCos(mid), y)
          THEN AtanBisect(y, x, mid, hi)
          ELSE AtanBisect(y, x, lo, mid)

MathAtan2(y, x) ==
  IF y = 0 THEN 0
  ELSE IF x = 0 THEN HalfPI
  ELSE AtanBisect(y, x, 0, HalfPI)

(***************************************************************************)
(* DistanceCalculator                                                      *)
(***************************************************************************)
EARTH_RADIUS_KM == 6371

\* degrees * (Math.PI / 180); coordinates are whole degrees.
toRadians(degrees) == degrees * RadPerDegree

FSquare(x) == FMul(x, x)

\* Variant: Math.cos(lat1Rad) taken twice instead of lat1Rad and lat2Rad.
haversineACosLat1(point1, point2) ==
  LET lat1Rad  == toRadians(point1.latitude)
      deltaLat == toRadians(point2.latitude - point1.latitude)
      deltaLon == toRadians(point2.longitude - point1.longitude)
  IN FSquare(MathSin(FHalf(deltaLat)))
     + FMul(FMul(MathCos(lat1Rad), MathCos(lat1Rad)), FSquare(MathSin(FHalf(deltaLon))))

\* Variant: deltaLon taken as the sum of the longitudes.
haversineALonSum(point1, point2) ==
  LET lat1Rad  == toRadians(point1.latitude)
      lat2Rad  == toRadians(point2.latitude)
      deltaLat == toRadians(point2.latitude - point1.latitude)
      deltaLon == toRadians(point2.longitude + point1.longitude)
  IN FSquare(MathSin(FHalf(deltaLat)))
     + FMul(FMul(MathCos(lat1Rad), MathCos(lat2Rad)), FSquare(MathSin(FHalf(deltaLon))))

\* a: the square of half the chord length between the points.
haversineA(point1, point2) ==
  LET lat1Rad  == toRadians(point1.latitude)
      lat2Rad  == toRadians(point2.latitude)
      deltaLat == toRadians(point2.latitude - point1.latitude)
      deltaLon == toRadians(point2.longitude - point1.longitude)
  IN FSquare(MathSin(FHalf(deltaLat)))
     + FMul(FMul(MathCos(lat1Rad), MathCos(lat2Rad)), FSquare(MathSin(FHalf(deltaLon))))

\* c = 2 * Math.atan2(Math.sqrt(a), Math.sqrt(1 - a))
haversineC(a) == 2 * MathAtan2(MathSqrt(a), MathSqrt(FP - a))

\* EARTH_RADIUS_KM * c, in kilometres to the metre.
haversineKm(c) ==
  Rat(EARTH_RADIUS_KM * (c \div 100000)
      + (EARTH_RADIUS_KM * (c % 100000)) \div 100000, 1000)

\* The haversine distance in kilometres.
haversine(point1, point2) == haversineKm(haversineC(haversineA(point1, point2)))

Location(latitude, longitude) == [latitude |-> latitude, longitude |-> longitude]

FacilityLocations == {Location(80, 0), Location(40, -74)}

\* From the facility at (80, 0): 0 km, 19 km, 39 km, 58 km and 111 km.
PatientLocations ==
  {Location(80, 0), Location(80, 1), Location(80, 2), Location(80, 3), Location(79, 0)}

\* The facility of the direct calls of calculateScore.
ScoringFacilities == {Location(80, 0)}

SampleLocations == {Location(41, -74), Location(-34, 151)}

\* Further points for the calls of DistanceCalculator.calculate.
DistanceLocations == {Location(0, 0), Location(52, 13), Location(-33, -70)}

GridLocations ==
  FacilityLocations \cup PatientLocations \cup SampleLocations \cup DistanceLocations

\* The distances between the locations of the model (@@ makes TLC tabulate
\* the function once instead of recomputing an entry at each use).
HaversineTable ==
  [pair \in GridLocations \X GridLocations |-> haversine(pair[1], pair[2])] @@ <<>>

\* DistanceCalculator.calculate
calculate(point1, point2) == HaversineTable[<<point1, point2>>]

(***************************************************************************)
(* ScoringService                                                          *)
(***************************************************************************)
\* Variant: a sub-object that is given replaces the default one as a whole
\* (config.x || defaults.x).
ReplaceWhole(defaults, override) ==
  IF DOMAIN override = {} THEN defaults ELSE override

\* { ...defaults, ...(override || {}) }: the fields of override win, every
\* other field keeps its default.
Spread(defaults, override) ==
  [k \in (DOMAIN defaults) \cup (DOMAIN override) |->
     IF k \in DOMAIN override THEN override[k] ELSE defaults[k]]

\* An absent sub-object of a partial config (config?.x || {}).
Absent == [k \in {} |-> 0]

defaultConfig ==
  [weights |->
     [demographic |-> [age |-> Rat(1, 10), distance |-> Rat(1, 10)],
      behavioral  |-> [acceptedOffers   |-> Rat(3, 10),
                       canceledOffers   |-> Rat(3, 10),
                       averageReplyTime |-> Rat(2, 10)]],
   randomnessConfig |->
     [enabled |-> TRUE, maxBoost |-> Rat(2, 10), lowDataThreshold |-> 20]]

\* new ScoringService(config): partial is [demographic, behavioral,
\* randomnessConfig], each the fields given (Absent when not given).
ScoringService(partial) ==
  [weights |->
     [demographic |-> Spread(defaultConfig.weights.demographic, partial.demographic),
      behavioral  |-> Spread(defaultConfig.weights.behavioral, partial.behavioral)],
   randomnessConfig |->
     Spread(defaultConfig.randomnessConfig, partial.randomnessConfig)]

\* Variant: the decay above 65 divides by 30 instead of 35.
ageScoreDecayOver30(age) ==
  IF age < 30 THEN RAdd(RInt(6), RMul(Rat(age, 30), RInt(2)))
  ELSE IF age <= 65 THEN RInt(10)
  ELSE RSub(RInt(10), RMul(Rat(age - 65, 30), RInt(3)))

\* Variant: the first tier reaches up to age 30 (age <= 30).
ageScoreYoungUpTo30(age) ==
  IF age <= 30 THEN RAdd(RInt(6), RMul(Rat(age, 30), RInt(2)))
  ELSE IF age <= 65 THEN RInt(10)
  ELSE RSub(RInt(10), RMul(Rat(age - 65, 35), RInt(3)))

calculateAgeScore(age) ==
  IF age < 30 THEN RAdd(RInt(6), RMul(Rat(age, 30), RInt(2)))
  ELSE IF age <= 65 THEN RInt(10)
  ELSE RSub(RInt(10), RMul(Rat(age - 65, 35), RInt(3)))

\* Variant: the upper bounds of the tiers written < instead of <=.
distanceScoreExclusive(distanceKm) ==
  IF RLt(distanceKm, RInt(10)) THEN RInt(10)
  ELSE IF RLt(distanceKm, RInt(25)) THEN RInt(9)
  ELSE IF RLt(distanceKm, RInt(50)) THEN RInt(7)
  ELSE IF RLt(distanceKm, RInt(100)) THEN RInt(5)
  ELSE RInt(3)

calculateDistanceScore(distanceKm) ==
  IF RLe(distanceKm, RInt(10)) THEN RInt(10)
  ELSE IF RLe(distanceKm, RInt(25)) THEN RInt(9)
  ELSE IF RLe(distanceKm, RInt(50)) THEN RInt(7)
  ELSE IF RLe(distanceKm, RInt(100)) THEN RInt(5)
  ELSE RInt(3)

\* Variant: the rate of canceled offers instead of accepted ones.
cancelRateScore(patient) ==
  LET totalOffers == patient.acceptedOffers + patient.canceledOffers
  IN IF totalOffers < 5 THEN RInt(5)
     ELSE RMul(Rat(patient.canceledOffers, totalOffers), RInt(10))

\* Variant: the acceptance rate taken as a percentage.
acceptanceRatePercent(patient) ==
  LET totalOffers == patient.acceptedOffers + patient.canceledOffers
  IN IF totalOffers < 5 THEN RInt(5)
     ELSE RMul(Rat(patient.acceptedOffers, totalOffers), RInt(100))

\* Variant: the neutral score only for a patient without any offer.
acceptanceNeutralWhenEmpty(patient) ==
  LET totalOffers == patient.acceptedOffers + patient.canceledOffers
  IN IF totalOffers = 0 THEN RInt(5)
     ELSE RMul(Rat(patient.acceptedOffers, totalOffers), RInt(10))

\* Variant: the neutral score up to and including 5 offers.
acceptanceNeutralUpToFive(patient) ==
  LET totalOffers == patient.acceptedOffers + patient.canceledOffers
  IN IF totalOffers <= 5 THEN RInt(5)
     ELSE RMul(Rat(patient.acceptedOffers, totalOffers), RInt(10))

calculateAcceptanceRateScore(patient) ==
  LET totalOffers == patient.acceptedOffers + patient.canceledOffers
  IN IF totalOffers < 5 THEN RInt(5)
     ELSE RMul(Rat(patient.acceptedOffers, totalOffers), RInt(10))

\* Variant: the upper bounds of the tiers written < instead of <=.
responseTimeExclusive(avgReplyTimeSeconds) ==
  IF avgReplyTimeSeconds < 300 THEN RInt(10)
  ELSE IF avgReplyTimeSeconds < 900 THEN RInt(8)
  ELSE IF avgReplyTimeSeconds < 1800 THEN RInt(6)
  ELSE IF avgReplyTimeSeconds < 3600 THEN RInt(4)
  ELSE RInt(2)

calculateResponseTimeScore(avgReplyTimeSeconds) ==
  IF avgReplyTimeSeconds <= 300 THEN RInt(10)
  ELSE IF avgReplyTimeSeconds <= 900 THEN RInt(8)
  ELSE IF avgReplyTimeSeconds <= 1800 THEN RInt(6)
  ELSE IF avgReplyTimeSeconds <= 3600 THEN RInt(4)
  ELSE RInt(2)

\* Variant: the boost is Math.random() * maxBoost * 100.
boostTimesHundred(config, patient, currentScore, rnd) ==
  LET totalInteractions == patient.acceptedOffers + patient.canceledOffers
  IN IF totalInteractions < config.randomnessConfig.lowDataThreshold
     THEN [score |-> RAdd(currentScore,
                          RMul(RMul(rnd, config.randomnessConfig.maxBoost), RInt(100))),
           draws |-> 1]
     ELSE [score |-> currentScore, draws |-> 0]

\* Variant: the threshold test written <= instead of <.
boostUpToThreshold(config, patient, currentScore, rnd) ==
  LET totalInteractions == patient.acceptedOffers + patient.canceledOffers
  IN IF totalInteractions <= config.randomnessConfig.lowDataThreshold
     THEN [score |-> RAdd(currentScore,
                          RMul(RMul(rnd, config.randomnessConfig.maxBoost), RInt(10))),
           draws |-> 1]
     ELSE [score |-> currentScore, draws |-> 0]

\* Variant: Math.random() is called but the boost added is always maxBoost * 10.
boostWithoutDraw(config, patient, currentScore, rnd) ==
  LET totalInteractions == patient.acceptedOffers + patient.canceledOffers
  IN IF totalInteractions < config.randomnessConfig.lowDataThreshold
     THEN [score |-> RAdd(currentScore,
                          RMul(config.randomnessConfig.maxBoost, RInt(10))),
           draws |-> 1]
     ELSE [score |-> currentScore, draws |-> 0]

\* rnd is the value Math.random() returns if it is called; draws counts the
\* calls of Math.random() made.
applyRandomnessBoost(config, patient, currentScore, rnd) ==
  LET totalInteractions == patient.acceptedOffers + patient.canceledOffers
  IN IF totalInteractions < config.randomnessConfig.lowDataThreshold
     THEN [score |-> RAdd(currentScore,
                          RMul(RMul(rnd, config.randomnessConfig.maxBoost), RInt(10))),
           draws |-> 1]
     ELSE [score |-> currentScore, draws |-> 0]

\* The four sub-scores of a patient at the given distance.
subScores(patient, distance) ==
  [distance            |-> distance,
   ageScore            |-> calculateAgeScore(patient.age),
   distanceScore       |-> calculateDistanceScore(distance),
   acceptanceRateScore |-> calculateAcceptanceRateScore(patient),
   responseTimeScore   |-> calculateResponseTimeScore(patient.averageReplyTime)]

\* The weighted demographic score (normalized to 0-10).
demographicScoreOf(dw, sub) ==
  RDiv(RAdd(RMul(sub.ageScore, dw.age), RMul(sub.distanceScore, dw.distance)),
       RAdd(dw.age, dw.distance))

\* The weighted behavioral score (normalized to 0-10).
behavioralScoreOf(bw, sub) ==
  RDiv(RAdd(RMul(sub.acceptanceRateScore, RAdd(bw.acceptedOffers, bw.canceledOffers)),
            RMul(sub.responseTimeScore, bw.averageReplyTime)),
       RAdd(RAdd(bw.acceptedOffers, bw.canceledOffers), bw.averageReplyTime))

\* finalScore = demographicScore * 0.2 + behavioralScore * 0.8
combineScores(distance, demographicScore, behavioralScore) ==
  [distance         |-> distance,
   demographicScore |-> demographicScore,
   behavioralScore  |-> behavioralScore,
   finalScore       |-> RAdd(RMul(demographicScore, Rat(2, 10)),
                             RMul(behavioralScore, Rat(8, 10)))]

weightedScores(config, sub) ==
  combineScores(sub.distance,
                demographicScoreOf(config.weights.demographic, sub),
                behavioralScoreOf(config.weights.behavioral, sub))

\* calculateScore up to the unboosted finalScore.
baseScores(config, patient, facilityLocation) ==
  weightedScores(config,
                 subScores(patient, calculate(patient.location, facilityLocation)))

\* Math.max(1, Math.min(10, finalScore))
clamp(boosted) ==
  [score |-> RMax(RInt(1), RMin(RInt(10), boosted.score)), draws |-> boosted.draws]

\* Variant: the clamp applied before the boost.
clampThenBoost(config, patient, finalScore, rnd) ==
  IF config.randomnessConfig.enabled
  THEN applyRandomnessBoost(config, patient,
                            clamp([score |-> finalScore, draws |-> 0]).score, rnd)
  ELSE clamp([score |-> finalScore, draws |-> 0])

\* Variant: the enabled flag is not looked at.
boostWhateverEnabled(config, patient, finalScore, rnd) ==
  clamp(applyRandomnessBoost(config, patient, finalScore, rnd))

\* The boost (when randomness is enabled) and then the clamp.
boostAndClamp(config, patient, finalScore, rnd) ==
  clamp(IF config.randomnessConfig.enabled
        THEN applyRandomnessBoost(config, patient, finalScore, rnd)
        ELSE [score |-> finalScore, draws |-> 0])

\* Variant: the boost is reported in behavioralScore too.
scoredPatientBoostedBehavioral(patient, base, final) ==
  [result |->
     Spread(patient,
            [score            |-> toFixed2(final.score),
             distance         |-> toFixed2(base.distance),
             demographicScore |-> toFixed2(base.demographicScore),
             behavioralScore  |-> toFixed2(RAdd(base.behavioralScore,
                                                RSub(final.score, base.finalScore)))]),
   draws |-> final.draws]

\* The object returned: { ...patient, the four numbers rounded to 2 decimals }.
scoredPatient(patient, base, final) ==
  [result |->
     Spread(patient,
            [score            |-> toFixed2(final.score),
             distance         |-> toFixed2(base.distance),
             demographicScore |-> toFixed2(base.demographicScore),
             behavioralScore  |-> toFixed2(base.behavioralScore)]),
   draws |-> final.draws]

finishScore(config, patient, base, rnd) ==
  scoredPatient(patient, base, boostAndClamp(config, patient, base.finalScore, rnd))

\* One call of calculateScore: the ScoredPatient returned and the number of
\* Math.random() calls it made.
scoreCall(config, patient, facilityLocation, rnd) ==
  finishScore(config, patient, baseScores(config, patient, facilityLocation), rnd)

calculateScore(config, patient, facilityLocation, rnd) ==
  scoreCall(config, patient, facilityLocation, rnd).result

(***************************************************************************)
(* calculateScore in binary64                                              *)
(*                                                                         *)
(* The statements of calculateScore with every operation rounded as the    *)
(* JavaScript engine rounds it.  The distance, whose value only selects a  *)
(* tier, is the one computed above.  Configs hold doubles here: a decimal  *)
(* literal such as 0.1 is the double nearest to it.                        *)
(***************************************************************************)
\* The doubles of the literals 0, 0.1, ... 1 (@@ makes TLC tabulate them).
Tenths == [k \in 0..10 |-> DDiv(DInt(k), DInt(10))] @@ <<>>

\* The double a non-negative decimal literal denotes: the one nearest to it.
DRat(x) ==
  IF 10 % x.d = 0 /\ x.n <= x.d
  THEN Tenths[x.n * (10 \div x.d)]
  ELSE DDiv(DInt(x.n), DInt(x.d))

DoubleFields(numbers) == [k \in DOMAIN numbers |-> DRat(numbers[k])]

\* this.config as the numbers the service holds.
configNumbers(config) ==
  [weights |->
     [demographic |-> DoubleFields(config.weights.demographic),
      behavioral  |-> DoubleFields(config.weights.behavioral)],
   randomnessConfig |->
     [enabled          |-> config.randomnessConfig.enabled,
      maxBoost         |-> DRat(config.randomnessConfig.maxBoost),
      lowDataThreshold |-> config.randomnessConfig.lowDataThreshold]]

calculateAgeScore64(age) ==
  IF age < 30 THEN DAdd(DInt(6), DMul(DDiv(DInt(age), DInt(30)), DInt(2)))
  ELSE IF age <= 65 THEN DInt(10)
  ELSE DSub(DInt(10), DMul(DDiv(DInt(age - 65), DInt(35)), DInt(3)))

calculateAcceptanceRateScore64(patient) ==
  LET totalOffers == patient.acceptedOffers + patient.canceledOffers
  IN IF totalOffers < 5 THEN DInt(5)
     ELSE DMul(DDiv(DInt(patient.acceptedOffers), DInt(totalOffers)), DInt(10))

subScores64(patient, distance) ==
  [distance            |-> distance,
   ageScore            |-> calculateAgeScore64(patient.age),
   distanceScore       |-> DInt(calculateDistanceScore(distance).n),
   acceptanceRateScore |-> calculateAcceptanceRateScore64(patient),
   responseTimeScore   |-> DInt(calculateResponseTimeScore(patient.averageReplyTime).n)]

\* Variant: the weighted sum is not divided by the sum of the weights.
demographicScoreUnnormalized(dw, sub) ==
  DAdd(DMul(sub.ageScore, dw.age), DMul(sub.distanceScore, dw.distance))

demographicScore64(dw, sub) ==
  DDiv(DAdd(DMul(sub.ageScore, dw.age), DMul(sub.distanceScore, dw.distance)),
       DAdd(dw.age, dw.distance))

\* Variant: the acceptance rate weighted by the acceptedOffers weight alone.
behavioralScoreAcceptedOnly(bw, sub) ==
  DDiv(DAdd(DMul(sub.acceptanceRateScore, bw.acceptedOffers),
            DMul(sub.responseTimeScore, bw.averageReplyTime)),
       DAdd(DAdd(bw.acceptedOffers, bw.canceledOffers), bw.averageReplyTime))

behavioralScore64(bw, sub) ==
  DDiv(DAdd(DMul(sub.acceptanceRateScore, DAdd(bw.acceptedOffers, bw.canceledOffers)),
            DMul(sub.responseTimeScore, bw.averageReplyTime)),
       DAdd(DAdd(bw.acceptedOffers, bw.canceledOffers), bw.averageReplyTime))

DemographicShare == DRat(Rat(2, 10))

BehavioralShare == DRat(Rat(8, 10))

combineScores64(distance, demographicScore, behavioralScore) ==
  [distance         |-> distance,
   demographicScore |-> demographicScore,
   behavioralScore  |-> behavioralScore,
   finalScore       |-> DAdd(DMul(demographicScore, DemographicShare),
                             DMul(behavioralScore, BehavioralShare))]

weightedScores64(config, sub) ==
  combineScores64(sub.distance,
                  demographicScore64(config.weights.demographic, sub),
                  behavioralScore64(config.weights.behavioral, sub))

applyRandomnessBoost64(config, patient, currentScore, rnd) ==
  LET totalInteractions == patient.acceptedOffers + patient.canceledOffers
  IN IF totalInteractions < config.randomnessConfig.lowDataThreshold
     THEN DAdd(currentScore,
               DMul(DMul(DRat(rnd), config.randomnessConfig.maxBoost), DInt(10)))
     ELSE currentScore

boostAndClamp64(config, patient, finalScore, rnd) ==
  DMax(DInt(1),
       DMin(DInt(10),
            IF config.randomnessConfig.enabled
            THEN applyRandomnessBoost64(config, patient, finalScore, rnd)
            ELSE finalScore))

scoredPatient64(patient, base, finalScore) ==
  Spread(patient,
         [score            |-> toFixed2D(finalScore),
          distance         |-> toFixed2(base.distance),
          demographicScore |-> toFixed2D(base.demographicScore),
          behavioralScore  |-> toFixed2D(base.behavioralScore)])

finishScore64(config, patient, base, rnd) ==
  scoredPatient64(patient, base, boostAndClamp64(config, patient, base.finalScore, rnd))

\* calculateScore of a service whose config holds the given doubles.
calculateScore64(config, patient, facilityLocation, rnd) ==
  finishScore64(config, patient,
                weightedScores64(config,
                                 subScores64(patient,
                                             calculate(patient.location, facilityLocation))),
                rnd)

(***************************************************************************)
(* JSON values (request bodies, sample.json)                               *)
(***************************************************************************)
JUndefined == [type |-> "undefined"]

JNum(v) == [type |-> "number", num |-> v]

\* A string, as its sequence of characters.
JStr(chars) == [type |-> "string", chars |-> chars]

JObj(fields) == [type |-> "object", fields |-> fields]

\* obj[key]; undefined when obj has no such property.
Get(obj, key) ==
  IF obj.type = "object" /\ key \in DOMAIN obj.fields
  THEN obj.fields[key]
  ELSE JUndefined

DigitValue(ch) ==
  CASE ch = "0" -> 0 [] ch = "1" -> 1 [] ch = "2" -> 2 [] ch = "3" -> 3
    [] ch = "4" -> 4 [] ch = "5" -> 5 [] ch = "6" -> 6 [] ch = "7" -> 7
    [] ch = "8" -> 8 [] ch = "9" -> 9

RECURSIVE DigitsValue(_)
DigitsValue(chars) ==
  IF chars = <<>> THEN 0
  ELSE 10 * DigitsValue(SubSeq(chars, 1, Len(chars) - 1))
       + DigitValue(chars[Len(chars)])

\* Number(v) for a number or a string holding a whole decimal numeral.
Number(v) ==
  IF v.type = "number" THEN v.num
  ELSE IF Head(v.chars) = "-" THEN -DigitsValue(Tail(v.chars))
  ELSE DigitsValue(v.chars)

(***************************************************************************)
(* Request validation (zod schemas, validateRequest, errorHandler)         *)
(***************************************************************************)
Issue(path, message) == [path |-> path, message |-> message]

\* z.number() applied to v.
zNumber(v, path) ==
  IF v.type # "number"
  THEN << Issue(path, "Invalid input: expected number") >>
  ELSE <<>>

\* Variant: any number is a latitude.
latitudeAnyNumber(v, path) == zNumber(v, path)

\* zodRefinements.latitude
zodRefinements_latitude(v, path) ==
  IF zNumber(v, path) # <<>> THEN zNumber(v, path)
  ELSE IF v.num >= -90 /\ v.num <= 90 THEN <<>>
  ELSE << Issue(path, "Latitude must be between -90 and 90") >>

\* zodRefinements.longitude
zodRefinements_longitude(v, path) ==
  IF zNumber(v, path) # <<>> THEN zNumber(v, path)
  ELSE IF v.num >= -180 /\ v.num <= 180 THEN <<>>
  ELSE << Issue(path, "Longitude must be between -180 and 180") >>

\* z.object({ latitude, longitude })
locationSchema(v, path) ==
  IF v.type # "object"
  THEN << Issue(path, "Invalid input: expected object") >>
  ELSE zodRefinements_latitude(Get(v, "latitude"), Append(path, "latitude"))
       \o zodRefinements_longitude(Get(v, "longitude"), Append(path, "longitude"))

\* z.object({ location })
facilitySchema(v, path) ==
  IF v.type # "object"
  THEN << Issue(path, "Invalid input: expected object") >>
  ELSE locationSchema(Get(v, "location"), Append(path, "location"))

\* getPrioritizedPatientsSchema.body: the issues schema.body.parse(body)
\* raises; none when the body is accepted.
getPrioritizedPatientsSchema(body) ==
  IF body.type # "object"
  THEN << Issue(<<>>, "Invalid input: expected object") >>
  ELSE facilitySchema(Get(body, "facility"), <<"facility">>)

\* What schema.parse returns for an accepted body: the declared keys only.
ParsedBody(body) ==
  LET location == Get(Get(body, "facility"), "location")
  IN JObj([facility |->
             JObj([location |->
                     JObj([latitude  |-> Get(location, "latitude"),
                           longitude |-> Get(location, "longitude")])])])

\* new ValidationError(message), an AppError.
ValidationError(message) ==
  [isAppError |-> TRUE, statusCode |-> 400, message |-> message]

\* The middleware: either next() with req.body replaced by the parsed body,
\* or next(new ValidationError("Validation failed: <path>: <message>, ...")).
validateRequest(body) ==
  LET issues == getPrioritizedPatientsSchema(body)
  IN IF issues = <<>>
     THEN [ok |-> TRUE, body |-> ParsedBody(body)]
     ELSE [ok |-> FALSE,
           error |-> ValidationError([prefix |-> "Validation failed", issues |-> issues])]

\* A message without issues (messages are [prefix, issues], written
\* "prefix: issue, issue").
Message(text) == [prefix |-> text, issues |-> <<>>]

\* Variant: the 500 response carries the message of the error.
errorResponsesWithMessage(err) ==
  IF err.isAppError
  THEN << [status |-> err.statusCode,
           body   |-> [error |-> [message |-> err.message,
                                  statusCode |-> err.statusCode]]] >>
  ELSE << [status |-> 500,
           body   |-> [error |-> [message |-> err.message, statusCode |-> 500]]] >>

\* The responses errorHandler sends for err (the calls of res.json), in order.
errorResponses(err) ==
  IF err.isAppError
  THEN << [status |-> err.statusCode,
           body   |-> [error |-> [message |-> err.message,
                                  statusCode |-> err.statusCode]]] >>
  ELSE << [status |-> 500,
           body   |-> [error |-> [message |-> Message("Internal server error"),
                                  statusCode |-> 500]]] >>

\* The response errorHandler sends for err.
errorHandler(err) == errorResponses(err)[1]

(***************************************************************************)
(* InMemoryPatientRepository                                               *)
(***************************************************************************)
\* The Patient objects loadPatientsFromFile builds from sample.json: none
\* when the file is missing or cannot be parsed.
loadPatientsFromFile(file) ==
  IF file.exists /\ file.parses
  THEN [i \in 1..Len(file.data) |->
          LET item == file.data[i]
          IN [id               |-> item.id,
              name             |-> item.name,
              location         |-> [latitude  |-> Number(item.location.latitude),
                                    longitude |-> Number(item.location.longitude)],
              age              |-> item.age,
              acceptedOffers   |-> item.acceptedOffers,
              canceledOffers   |-> item.canceledOffers,
              averageReplyTime |-> item.averageReplyTime]]
  ELSE <<>>

\* findAll(): [...this.patients], a new array holding the same objects.
findAll(thisPatients) == [i \in 1..Len(thisPatients) |-> thisPatients[i]]

(***************************************************************************)
(* GetPrioritizedPatients                                                  *)
(***************************************************************************)
\* Variant: the comparator (a, b) => a.score - b.score.
compareAscending(a, b) == RSub(a.score, b.score)

\* The comparator (a, b) => b.score - a.score.
compareScore(a, b) == RSub(b.score, a.score)

\* Variant: e is placed before the elements that compare equal to it.
RECURSIVE InsertBeforeEqual(_, _)
InsertBeforeEqual(sorted, e) ==
  IF sorted = <<>> THEN << e >>
  ELSE IF compareScore(Head(sorted), e).n >= 0 THEN << e >> \o sorted
  ELSE << Head(sorted) >> \o InsertBeforeEqual(Tail(sorted), e)

\* Array.prototype.sort(compareFn) is a stable sort: x is placed before the
\* first element the comparator orders after it.
RECURSIVE InsertSorted(_, _)
InsertSorted(sorted, e) ==
  IF sorted = <<>> THEN << e >>
  ELSE IF compareScore(Head(sorted), e).n > 0 THEN << e >> \o sorted
  ELSE << Head(sorted) >> \o InsertSorted(Tail(sorted), e)

RECURSIVE sort(_)
sort(arr) ==
  IF arr = <<>> THEN <<>>
  ELSE InsertSorted(sort(SubSeq(arr, 1, Len(arr) - 1)), arr[Len(arr)])

\* Variant: slice(-10), the last 10.
sliceLast(arr) == SubSeq(arr, IF Len(arr) < 10 THEN 1 ELSE Len(arr) - 9, Len(arr))

\* slice(0, 10)
slice(arr) == SubSeq(arr, 1, IF Len(arr) < 10 THEN Len(arr) ELSE 10)

\* patient.distance || 0
OrZero(v) == IF v.n = 0 THEN RInt(0) ELSE v

toDTO(patient) ==
  [id               |-> patient.id,
   name             |-> patient.name,
   score            |-> patient.score,
   distance         |-> OrZero(patient.distance),
   demographicScore |-> patient.demographicScore,
   behavioralScore  |-> patient.behavioralScore]

\* Variant: calculateScore writes the four numbers into the patient it was given.
scoredObjectInPlace(patientRef, fresh) == patientRef

\* The object calculateScore returns is a new one ({...patient, ...}): fresh,
\* not the patient object it was given.
scoredObject(patientRef, fresh) == fresh

(***************************************************************************)
(* Bounds and input values                                                 *)
(***************************************************************************)
MaxAge == 300

MaxOffers == 20

MaxReplyTime == 7200

\* Math.random() yields k / RandSteps for k in 0 .. RandSteps - 1.
RandSteps == 3

MaxPatients == 11

MaxRequests == 2

\* Distances given to calculateDistanceScore: 0, 0.5, 1, ... MaxDistanceKm.
MaxDistanceKm == 120

\* The factors the weights of a bucket are multiplied by: 2 .. MaxFactor.
MaxFactor == 3

RandomValues == {Rat(k, RandSteps) : k \in 0..(RandSteps - 1)}

AgeValues == {0, 29, 30, 65, 66, MaxAge}

OfferValues == {0, 4, 5, 19, MaxOffers}

ReplyTimeValues == {300, 301, 3600, MaxReplyTime}

SubjectPatients ==
  {[id |-> 1, name |-> "subject", location |-> l, age |-> a,
    acceptedOffers |-> acc, canceledOffers |-> can, averageReplyTime |-> t] :
     l \in PatientLocations, a \in AgeValues, acc \in OfferValues,
     can \in OfferValues, t \in ReplyTimeValues}

NoPartial ==
  [demographic |-> Absent, behavioral |-> Absent, randomnessConfig |-> Absent]

RandomnessDisabled ==
  [demographic |-> Absent, behavioral |-> Absent,
   randomnessConfig |-> [enabled |-> FALSE]]

ScoringConfigs == {ScoringService(NoPartial), ScoringService(RandomnessDisabled)}

\* Rows of sample.json: age, acceptedOffers, canceledOffers, averageReplyTime,
\* latitude and longitude (strings in the file).
SampleRows ==
  << <<45, 40, 10, 120, <<"8", "0">>, <<"0">> >>,
     <<29, 2, 1, 400, <<"8", "0">>, <<"1">> >>,
     <<70, 25, 25, 2000, <<"7", "9">>, <<"0">> >>,
     <<45, 40, 10, 120, <<"8", "0">>, <<"0">> >>,
     <<33, 0, 30, 7200, <<"-", "3", "4">>, <<"1", "5", "1">> >>,
     <<90, 30, 0, 300, <<"8", "0">>, <<"3">> >>,
     <<18, 50, 50, 900, <<"8", "0">>, <<"2">> >>,
     <<52, 21, 7, 3600, <<"4", "1">>, <<"-", "7", "4">> >>,
     <<70, 25, 25, 2000, <<"7", "9">>, <<"0">> >>,
     <<64, 90, 10, 100, <<"4", "0">>, <<"-", "7", "4">> >>,
     <<33, 0, 30, 7200, <<"4", "0">>, <<"-", "7", "4">> >>,
     <<75, 60, 20, 301, <<"-", "3", "4">>, <<"1", "5", "1">> >> >>

SampleItem(i) ==
  LET row == SampleRows[((i - 1) % Len(SampleRows)) + 1]
  IN [id |-> i, name |-> <<"patient", i>>,
      location |-> [latitude |-> JStr(row[5]), longitude |-> JStr(row[6])],
      age |-> row[1], acceptedOffers |-> row[2], canceledOffers |-> row[3],
      averageReplyTime |-> row[4]]

SampleSizes == {0, 2, 10, MaxPatients}

SampleFiles ==
  {[exists |-> FALSE, parses |-> FALSE, data |-> <<>>],
   [exists |-> TRUE, parses |-> FALSE, data |-> <<>>]}
  \cup {[exists |-> TRUE, parses |-> TRUE, data |-> [i \in 1..n |-> SampleItem(i)]] :
          n \in SampleSizes}

LocationBody(latitude, longitude) ==
  JObj([facility |->
          JObj([location |-> JObj([latitude |-> latitude, longitude |-> longitude])])])

ValidBodies ==
  {LocationBody(JNum(l.latitude), JNum(l.longitude)) : l \in FacilityLocations}

InvalidBodies ==
  {JObj(Absent),
   JObj([facility |-> JObj(Absent)]),
   JObj([facility |-> JObj([location |-> JObj([longitude |-> JNum(-74)])])]),
   JObj([facility |-> JObj([location |-> JObj([latitude |-> JNum(40)])])]),
   LocationBody(JStr(<<"4", "0">>), JStr(<<"-", "7", "4">>)),
   LocationBody(JNum(91), JNum(-74)),
   LocationBody(JNum(40), JNum(-181))}

RequestBodies == ValidBodies \cup InvalidBodies

(***************************************************************************)
(* The process: startServer and setupGracefulShutdown                      *)
(***************************************************************************)
\* setTimeout(..., 30000) in shutdown
FORCE_SHUTDOWN_MS == 30000

\* The clock advances in steps of TickMs, up to MaxTicks steps.
TickMs == 10000

MaxTicks == 6

MaxConnections == 2

MaxSignals == 2

Signals == {"SIGTERM", "SIGINT", "UNCAUGHT_EXCEPTION", "UNHANDLED_REJECTION"}

\* The process after startServer: the server listens, the handlers of
\* setupGracefulShutdown are installed, the process runs (exitCode -1).
\* signals records each signal handled and the time it arrived at.
StartedProcess(connections) ==
  [server         |-> "listening",
   connections    |-> connections,
   closeCallbacks |-> 0,
   timers         |-> {},
   now            |-> 0,
   signals        |-> <<>>,
   exitCode       |-> -1]

\* shutdown(signal): server.close(callback) stops the server from accepting
\* connections and registers the callback; a timer is set.
shutdown(p, signal) ==
  [p EXCEPT !.signals = Append(@, [signal |-> signal, at |-> p.now]),
            !.server = IF @ = "listening" THEN "closing" ELSE @,
            !.closeCallbacks = @ + 1,
            !.timers = @ \cup {p.now + FORCE_SHUTDOWN_MS}]

\* The server's 'close' event: the callbacks given to server.close run, and
\* the first one calls process.exit(0).
closeCallback(p) ==
  [p EXCEPT !.server = "closed", !.closeCallbacks = 0, !.exitCode = 0]

\* Variant: the timer's callback logs the error and does not exit.
forceShutdownLogsOnly(p, deadline) ==
  [p EXCEPT !.timers = @ \ {deadline}]

\* The callback of the timer: process.exit(1).
forceShutdown(p, deadline) ==
  [p EXCEPT !.timers = @ \ {deadline}, !.exitCode = 1]

(***************************************************************************)
(* State                                                                   *)
(***************************************************************************)
VARIABLES
  objects,          \* the Patient objects the repository holds, by reference
  patients,         \* InMemoryPatientRepository.patients: references, in order
  req,              \* the HTTP requests: where each is and what it got
  config,           \* ScoringService.config
  subject,          \* the argument of the direct calls (a patient, an error, ...)
  facility,         \* the facility location of the direct calls
  results,          \* what the direct calls returned
  randomConsulted,  \* whether one of them called Math.random()
  process           \* the Node process: its server, timers, clock and exit code

vars ==
  <<objects, patients, req, config, subject, facility, results, randomConsulted, process>>

Requests == 1..MaxRequests

NoResponse == [status |-> 0, body |-> <<>>]

IdleRequest ==
  [pc |-> "idle", body |-> JUndefined, facilityLocation |-> Location(0, 0),
   patients |-> <<>>, scoredPatients |-> <<>>, response |-> NoResponse,
   findAllCalls |-> 0, scoreCalls |-> 0]

(***************************************************************************)
(* The HTTP service: POST /api/patients/prioritized                        *)
(***************************************************************************)
Init ==
  /\ \E file \in SampleFiles :
       /\ objects = loadPatientsFromFile(file)
       /\ patients = [i \in 1..Len(loadPatientsFromFile(file)) |-> i]
  /\ req = [r \in Requests |-> IdleRequest]
  /\ config = ScoringService(NoPartial)
  /\ subject = SampleItem(1)
  /\ facility = Location(0, 0)
  /\ results = <<>>
  /\ randomConsulted = FALSE
  /\ process = StartedProcess(0)

\* One synchronous run of the route's handlers for a request: validateRequest,
\* then either errorHandler, or PatientController.getPrioritized and
\* GetPrioritizedPatients.execute up to its await of findAll().
HandleRequest(r, body) ==
  /\ req[r].pc \in {"idle", "done"}
  /\ \E v \in {validateRequest(body)} :
       IF v.ok
       THEN \E location \in {Get(Get(v.body, "facility"), "location")} :
              req' = [req EXCEPT ![r] =
                        [pc               |-> "await",
                         body             |-> body,
                         facilityLocation |->
                           Location(Get(location, "latitude").num,
                                    Get(location, "longitude").num),
                         patients         |-> findAll(patients),
                         scoredPatients   |-> <<>>,
                         response         |-> NoResponse,
                         findAllCalls     |-> 1,
                         scoreCalls       |-> 0]]
       ELSE req' = [req EXCEPT ![r] =
                      [pc               |-> "done",
                       body             |-> body,
                       facilityLocation |-> Location(0, 0),
                       patients         |-> <<>>,
                       scoredPatients   |-> <<>>,
                       response         |-> errorHandler(v.error),
                       findAllCalls     |-> 0,
                       scoreCalls       |-> 0]]
  /\ UNCHANGED <<objects, patients, config, subject, facility, results, randomConsulted,
               process>>

\* The patients of refs for whom calculateScore calls Math.random().
drawsRandom(refs, facilityLocation) ==
  {i \in 1..Len(refs) :
     scoreCall(config, objects[refs[i]], facilityLocation, RInt(0)).draws = 1}

\* Variant: facilityLocation is kept in a field of the use case, which an
\* invocation that arrived later and is still suspended has overwritten.
mapWithSharedFacility(refs, facilityLocation, rnd) ==
  [i \in 1..Len(refs) |->
     calculateScore(config, objects[refs[i]],
                    IF \E q \in Requests : req[q].pc = "await"
                    THEN req[CHOOSE q \in Requests : req[q].pc = "await"].facilityLocation
                    ELSE facilityLocation,
                    IF i \in DOMAIN rnd THEN rnd[i] ELSE RInt(0))] @@ <<>>

\* patients.map((patient) => calculateScore(patient, facilityLocation)), with
\* rnd[i] what Math.random() yields for the i-th patient.
mapCalculateScore(refs, facilityLocation, rnd) ==
  [i \in 1..Len(refs) |->
     calculateScore(config, objects[refs[i]], facilityLocation,
                    IF i \in DOMAIN rnd THEN rnd[i] ELSE RInt(0))] @@ <<>>

\* The objects once calculateScore has run on refs: target[i] is the object
\* that holds the i-th result.
objectsAfter(scored, target) ==
  [o \in DOMAIN objects |->
     IF \E i \in DOMAIN target : target[i] = o
     THEN scored[CHOOSE i \in DOMAIN target : target[i] = o]
     ELSE objects[o]]

\* Variant: an empty result answered as an error.
emptyIsNotFound(topPatients) ==
  IF topPatients = <<>>
  THEN [status |-> 404,
        body   |-> [error |-> [message |-> "No patients found", statusCode |-> 404]]]
  ELSE [status |-> 200,
        body   |-> [patients |-> [i \in 1..Len(topPatients) |-> toDTO(topPatients[i])]]]

\* topPatients.map(...) and res.json({ patients })
okResponse(topPatients) ==
  [status |-> 200,
   body   |-> [patients |-> [i \in 1..Len(topPatients) |-> toDTO(topPatients[i])]]]

\* The id and score of each element of scoredPatients, as map returned it.
idAndScore(scored) ==
  [i \in 1..Len(scored) |-> [id |-> scored[i].id, score |-> scored[i].score]]

\* The rest of execute once findAll() has resolved: score every patient, sort,
\* keep the first 10, map to DTOs; the controller sends them with res.json.
executeAfterAwait(r) ==
  /\ req[r].pc = "await"
  /\ \E drawn \in {drawsRandom(req[r].patients, req[r].facilityLocation)} :
     \E rnd \in [drawn -> RandomValues] :
     \E scored \in {mapCalculateScore(req[r].patients, req[r].facilityLocation, rnd)} :
       /\ objects' = objectsAfter(scored,
                                  [i \in 1..Len(scored) |->
                                     scoredObject(req[r].patients[i], Len(objects) + i)])
       /\ req' = [req EXCEPT ![r].pc = "done",
                             ![r].scoreCalls = Len(scored),
                             ![r].scoredPatients = idAndScore(scored),
                             ![r].response = okResponse(slice(sort(scored)))]

ResumeExecute(r) ==
  /\ executeAfterAwait(r)
  /\ UNCHANGED <<patients, config, subject, facility, results, randomConsulted,
               process>>

Next ==
  \/ \E r \in Requests, body \in RequestBodies : HandleRequest(r, body)
  \/ \E r \in Requests : ResumeExecute(r)

Spec == Init /\ [][Next]_vars

(***************************************************************************)
(* Interleaved invocations of execute, randomness disabled                 *)
(***************************************************************************)
ConcurrentInit ==
  /\ \E file \in SampleFiles :
       /\ objects = loadPatientsFromFile(file)
       /\ patients = [i \in 1..Len(loadPatientsFromFile(file)) |-> i]
  /\ req = [r \in Requests |-> IdleRequest]
  /\ config = ScoringService(RandomnessDisabled)
  /\ subject = SampleItem(1)
  /\ facility = Location(0, 0)
  /\ results = <<>>
  /\ randomConsulted = FALSE
  /\ process = StartedProcess(0)

\* ResumeExecute, with results recording whether an invocation has resumed
\* while another one was suspended at its await.
ResumeInterleaved(r) ==
  /\ executeAfterAwait(r)
  /\ results' = IF \E q \in Requests \ {r} : req[q].pc = "await"
                THEN << "interleaved" >>
                ELSE results
  /\ UNCHANGED <<patients, config, subject, facility, randomConsulted,
               process>>

ConcurrentNext ==
  \/ \E r \in Requests, body \in RequestBodies : HandleRequest(r, body)
  \/ \E r \in Requests : ResumeInterleaved(r)

ConcurrentSpec == ConcurrentInit /\ [][ConcurrentNext]_vars

(***************************************************************************)
(* Direct calls of ScoringService.calculateScore on one patient            *)
(***************************************************************************)
ScoreInit ==
  /\ objects = <<>>
  /\ patients = <<>>
  /\ req = [r \in Requests |-> IdleRequest]
  /\ config \in ScoringConfigs
  /\ subject \in SubjectPatients
  /\ facility \in ScoringFacilities
  /\ results = <<>>
  /\ randomConsulted = FALSE
  /\ process = StartedProcess(0)

CallCalculateScore ==
  /\ \E rnd \in RandomValues :
     \E call \in {scoreCall(config, subject, facility, rnd)} :
       /\ results' = IF results = <<>>
                     THEN << call.result >>
                     ELSE << results[1], call.result >>
       /\ randomConsulted' = (randomConsulted \/ call.draws > 0)
  /\ UNCHANGED <<objects, patients, req, config, subject, facility,
               process>>

ScoreNext == CallCalculateScore

ScoreSpec == ScoreInit /\ [][ScoreNext]_vars

(***************************************************************************)
(* Direct calls of DistanceCalculator.calculate on two points              *)
(***************************************************************************)
\* A patient located at point.
PatientAt(point) ==
  [id |-> 1, name |-> "subject", location |-> point, age |-> 30,
   acceptedOffers |-> 0, canceledOffers |-> 0, averageReplyTime |-> 0]

DistanceInit ==
  /\ objects = <<>>
  /\ patients = <<>>
  /\ req = [r \in Requests |-> IdleRequest]
  /\ config = ScoringService(NoPartial)
  /\ \E point \in GridLocations : subject = PatientAt(point)
  /\ facility \in GridLocations
  /\ results = <<>>
  /\ randomConsulted = FALSE
  /\ process = StartedProcess(0)

\* calculate(patient, facility) and calculate(facility, patient).
CallCalculate ==
  /\ results' = << calculate(subject.location, facility),
                   calculate(facility, subject.location) >>
  /\ UNCHANGED <<objects, patients, req, config, subject, facility, randomConsulted,
               process>>

DistanceNext == CallCalculate

DistanceSpec == DistanceInit /\ [][DistanceNext]_vars

(***************************************************************************)
(* Direct calls of ScoringService.calculateAgeScore                        *)
(***************************************************************************)
\* A patient of the given age.
PatientOfAge(age) ==
  [id |-> 1, name |-> "subject", location |-> Location(80, 0), age |-> age,
   acceptedOffers |-> 0, canceledOffers |-> 0, averageReplyTime |-> 0]

AgeInit ==
  /\ objects = <<>>
  /\ patients = <<>>
  /\ req = [r \in Requests |-> IdleRequest]
  /\ config = ScoringService(NoPartial)
  /\ \E age \in 0..MaxAge : subject = PatientOfAge(age)
  /\ facility = Location(80, 0)
  /\ results = <<>>
  /\ randomConsulted = FALSE
  /\ process = StartedProcess(0)

\* calculateAgeScore for the subject's age and for the age one year above.
CallCalculateAgeScore ==
  /\ results' = << calculateAgeScore(subject.age), calculateAgeScore(subject.age + 1) >>
  /\ UNCHANGED <<objects, patients, req, config, subject, facility, randomConsulted,
               process>>

AgeNext == CallCalculateAgeScore

AgeSpec == AgeInit /\ [][AgeNext]_vars

(***************************************************************************)
(* Direct calls of ScoringService.calculateDistanceScore                   *)
(***************************************************************************)
DistanceValues == {Rat(k, 2) : k \in 0..(2 * MaxDistanceKm)}

DistanceScoreInit ==
  /\ objects = <<>>
  /\ patients = <<>>
  /\ req = [r \in Requests |-> IdleRequest]
  /\ config = ScoringService(NoPartial)
  /\ \E distanceKm \in DistanceValues : subject = [distanceKm |-> distanceKm]
  /\ facility = Location(80, 0)
  /\ results = <<>>
  /\ randomConsulted = FALSE
  /\ process = StartedProcess(0)

\* calculateDistanceScore for the distance and for the distance half a km above.
CallCalculateDistanceScore ==
  /\ results' = << calculateDistanceScore(subject.distanceKm),
                   calculateDistanceScore(RAdd(subject.distanceKm, Rat(1, 2))) >>
  /\ UNCHANGED <<objects, patients, req, config, subject, facility, randomConsulted,
               process>>

DistanceScoreNext == CallCalculateDistanceScore

DistanceScoreSpec == DistanceScoreInit /\ [][DistanceScoreNext]_vars

(***************************************************************************)
(* Direct calls of ScoringService.calculateAcceptanceRateScore             *)
(***************************************************************************)
\* A patient with the given offer counts.
PatientWithOffers(acceptedOffers, canceledOffers) ==
  [id |-> 1, name |-> "subject", location |-> Location(80, 0), age |-> 30,
   acceptedOffers |-> acceptedOffers, canceledOffers |-> canceledOffers,
   averageReplyTime |-> 0]

AcceptanceInit ==
  /\ objects = <<>>
  /\ patients = <<>>
  /\ req = [r \in Requests |-> IdleRequest]
  /\ config = ScoringService(NoPartial)
  /\ \E acc \in 0..MaxOffers, can \in 0..MaxOffers :
       subject = PatientWithOffers(acc, can)
  /\ facility = Location(80, 0)
  /\ results = <<>>
  /\ randomConsulted = FALSE
  /\ process = StartedProcess(0)

CallCalculateAcceptanceRateScore ==
  /\ results' = << calculateAcceptanceRateScore(subject) >>
  /\ UNCHANGED <<objects, patients, req, config, subject, facility, randomConsulted,
               process>>

AcceptanceNext == CallCalculateAcceptanceRateScore

AcceptanceSpec == AcceptanceInit /\ [][AcceptanceNext]_vars

(***************************************************************************)
(* Direct calls of ScoringService.calculateResponseTimeScore               *)
(***************************************************************************)
\* A patient with the given average reply time.
PatientWithReplyTime(averageReplyTime) ==
  [id |-> 1, name |-> "subject", location |-> Location(80, 0), age |-> 30,
   acceptedOffers |-> 0, canceledOffers |-> 0, averageReplyTime |-> averageReplyTime]

ResponseTimeInit ==
  /\ objects = <<>>
  /\ patients = <<>>
  /\ req = [r \in Requests |-> IdleRequest]
  /\ config = ScoringService(NoPartial)
  /\ \E t \in 0..MaxReplyTime : subject = PatientWithReplyTime(t)
  /\ facility = Location(80, 0)
  /\ results = <<>>
  /\ randomConsulted = FALSE
  /\ process = StartedProcess(0)

\* calculateResponseTimeScore for the reply time and for one second more.
CallCalculateResponseTimeScore ==
  /\ results' = << calculateResponseTimeScore(subject.averageReplyTime),
                   calculateResponseTimeScore(subject.averageReplyTime + 1) >>
  /\ UNCHANGED <<objects, patients, req, config, subject, facility, randomConsulted,
               process>>

ResponseTimeNext == CallCalculateResponseTimeScore

ResponseTimeSpec == ResponseTimeInit /\ [][ResponseTimeNext]_vars

(***************************************************************************)
(* calculateScore of services that differ in their weights only            *)
(***************************************************************************)
SkewedWeights ==
  [demographic |-> [age |-> Rat(3, 10), distance |-> Rat(7, 10)],
   behavioral  |-> [acceptedOffers   |-> Rat(5, 10),
                    canceledOffers   |-> Rat(1, 10),
                    averageReplyTime |-> Rat(4, 10)],
   randomnessConfig |-> [enabled |-> FALSE]]

WeightConfigs == {ScoringService(RandomnessDisabled), ScoringService(SkewedWeights)}

WeightPatients ==
  {[id |-> 1, name |-> "subject", location |-> l, age |-> a,
    acceptedOffers |-> acc, canceledOffers |-> can, averageReplyTime |-> t] :
     l \in {Location(80, 0), Location(80, 2)}, a \in {0, 30, 70},
     acc \in {0, 1, 2, 5}, can \in {4, 6, 11}, t \in {300, 7200}}

WeightFactors == 2..MaxFactor

\* The weights of one bucket, each multiplied by the factor.
scaleWeights(weights, factor) ==
  [k \in DOMAIN weights |-> DMul(weights[k], DInt(factor))]

scaledConfig(numbers, bucket, factor) ==
  [numbers EXCEPT !.weights[bucket] = scaleWeights(@, factor)]

\* The behavioral weights, in tenths, that keep averageReplyTime and the
\* sum of acceptedOffers and canceledOffers.
splitWeights(bw) ==
  LET tenths == RMul(RAdd(bw.acceptedOffers, bw.canceledOffers), RInt(10)).n
  IN {[acceptedOffers   |-> Rat(k, 10),
       canceledOffers   |-> Rat(tenths - k, 10),
       averageReplyTime |-> bw.averageReplyTime] : k \in 0..tenths}

WeightInit ==
  /\ objects = <<>>
  /\ patients = <<>>
  /\ req = [r \in Requests |-> IdleRequest]
  /\ config \in WeightConfigs
  /\ subject \in WeightPatients
  /\ facility = Location(80, 0)
  /\ results = <<>>
  /\ randomConsulted = FALSE
  /\ process = StartedProcess(0)

\* calculateScore of the service configured with config.
CallConfigured ==
  /\ results = <<>>
  /\ results' = << [weights |-> config.weights,
                    scored  |-> calculateScore64(configNumbers(config), subject,
                                                 facility, RInt(0))] >>
  /\ UNCHANGED <<objects, patients, req, config, subject, facility, randomConsulted,
               process>>

\* calculateScore of a service whose weights of one bucket are those of
\* config multiplied by a common factor.
CallScaled ==
  /\ Len(results) = 1
  /\ \E bucket \in {"demographic", "behavioral"}, factor \in WeightFactors :
       results' = << results[1],
                     [bucket |-> bucket, factor |-> factor,
                      scored |-> calculateScore64(
                                   scaledConfig(configNumbers(config), bucket, factor),
                                   subject, facility, RInt(0))] >>
  /\ UNCHANGED <<objects, patients, req, config, subject, facility, randomConsulted,
               process>>

\* calculateScore of a service configured with other acceptedOffers and
\* canceledOffers weights of the same sum.
CallSplit ==
  /\ Len(results) = 1
  /\ \E bw \in splitWeights(config.weights.behavioral) :
       results' = << results[1],
                     [weights |-> [config.weights EXCEPT !.behavioral = bw],
                      scored  |-> calculateScore64(
                                    configNumbers([config EXCEPT !.weights.behavioral = bw]),
                                    subject, facility, RInt(0))] >>
  /\ UNCHANGED <<objects, patients, req, config, subject, facility, randomConsulted,
               process>>

WeightNext == CallConfigured \/ CallScaled \/ CallSplit

WeightSpec == WeightInit /\ [][WeightNext]_vars

(***************************************************************************)
(* new ScoringService(config)                                              *)
(***************************************************************************)
\* Values given in a partial config, each different from the default.
OverrideValues ==
  [demographic |-> [age |-> Rat(5, 10), distance |-> Rat(9, 10)],
   behavioral  |-> [acceptedOffers   |-> Rat(1, 10),
                    canceledOffers   |-> Rat(7, 10),
                    averageReplyTime |-> Rat(6, 10)],
   randomnessConfig |-> [enabled |-> FALSE, maxBoost |-> Rat(15, 100),
                         lowDataThreshold |-> 10]]

\* The sub-objects that give some of the fields of full.
PartialObjects(full) ==
  {[k \in given |-> full[k]] : given \in SUBSET (DOMAIN full)}

PartialConfigs ==
  {[demographic |-> d, behavioral |-> b, randomnessConfig |-> r] :
     d \in PartialObjects(OverrideValues.demographic),
     b \in PartialObjects(OverrideValues.behavioral),
     r \in PartialObjects(OverrideValues.randomnessConfig)}

\* subject is the argument of the constructor; no service exists yet.
ConstructInit ==
  /\ objects = <<>>
  /\ patients = <<>>
  /\ req = [r \in Requests |-> IdleRequest]
  /\ config = <<>>
  /\ subject \in PartialConfigs
  /\ facility = Location(80, 0)
  /\ results = <<>>
  /\ randomConsulted = FALSE
  /\ process = StartedProcess(0)

NewScoringService ==
  /\ config = <<>>
  /\ config' = ScoringService(subject)
  /\ UNCHANGED <<objects, patients, req, subject, facility, results, randomConsulted,
               process>>

ConstructNext == NewScoringService

ConstructSpec == ConstructInit /\ [][ConstructNext]_vars

(***************************************************************************)
(* Direct calls of errorHandler                                            *)
(***************************************************************************)
StatusCodes == {400, 401, 403, 404, 409, 422, 429, 500, 502, 503}

ErrorMessages ==
  {"Request body is required", "Facility object is required",
   "Latitude is required in facility location", "Patient not found",
   "ENOENT: no such file or directory", "Cannot read properties of undefined"}

\* new AppError(message, statusCode)
AppError(message, statusCode) ==
  [isAppError |-> TRUE, statusCode |-> statusCode, message |-> message]

\* new Error(message), not an AppError.
Error(message) == [isAppError |-> FALSE, message |-> message]

\* The errors given to next(): AppErrors, the ValidationErrors of
\* validateRequest and other errors.
Errors ==
  {AppError(Message(m), c) : m \in ErrorMessages, c \in StatusCodes}
  \cup {validateRequest(body).error : body \in InvalidBodies}
  \cup {Error(Message(m)) : m \in ErrorMessages}

\* subject is the error of a failed request.
ErrorInit ==
  /\ objects = <<>>
  /\ patients = <<>>
  /\ req = [r \in Requests |-> IdleRequest]
  /\ config = ScoringService(NoPartial)
  /\ subject \in Errors
  /\ facility = Location(80, 0)
  /\ results = <<>>
  /\ randomConsulted = FALSE
  /\ process = StartedProcess(0)

\* errorHandler(err, req, res, next): results are the responses sent.
CallErrorHandler ==
  /\ results = <<>>
  /\ results' = errorResponses(subject)
  /\ UNCHANGED <<objects, patients, req, config, subject, facility, randomConsulted,
               process>>

ErrorNext == CallErrorHandler

ErrorSpec == ErrorInit /\ [][ErrorNext]_vars

(***************************************************************************)
(* calculateScore of one patient under several values of Math.random()     *)
(***************************************************************************)
\* Values of Math.random(), among them one close to 1.
BoostDraws == RandomValues \cup {Rat(999, 1000)}

BoostPatients ==
  {[id |-> 1, name |-> "subject", location |-> l, age |-> a,
    acceptedOffers |-> acc, canceledOffers |-> can, averageReplyTime |-> t] :
     l \in {Location(80, 0), Location(80, 2)}, a \in {0, 45, 70},
     acc \in {0, 1, 14, 19}, can \in {0, 1, 6}, t \in {300, 7200}}

BoostInit ==
  /\ objects = <<>>
  /\ patients = <<>>
  /\ req = [r \in Requests |-> IdleRequest]
  /\ config \in ScoringConfigs
  /\ subject \in BoostPatients
  /\ facility \in ScoringFacilities
  /\ results = <<>>
  /\ randomConsulted = FALSE
  /\ process = StartedProcess(0)

\* A call of calculateScore during which Math.random() would return rnd:
\* results keeps the first and the latest ScoredPatient returned.
CallWithDraw ==
  /\ \E rnd \in BoostDraws :
     \E call \in {scoreCall(config, subject, facility, rnd)} :
       /\ results' = IF results = <<>>
                     THEN << call.result >>
                     ELSE << results[1], call.result >>
       /\ randomConsulted' = (randomConsulted \/ call.draws > 0)
  /\ UNCHANGED <<objects, patients, req, config, subject, facility,
               process>>

BoostNext == CallWithDraw

BoostSpec == BoostInit /\ [][BoostNext]_vars

(***************************************************************************)
(* calculateScore of a patient and of the same patient with one more       *)
(* accepted offer                                                          *)
(***************************************************************************)
OfferPatients ==
  {[id |-> 1, name |-> "subject", location |-> l, age |-> a,
    acceptedOffers |-> acc, canceledOffers |-> can, averageReplyTime |-> t] :
     l \in {Location(80, 0)}, a \in {0, 30, 70},
     acc \in 0..MaxOffers, can \in 0..MaxOffers, t \in {300, 7200}}

\* The patient with acceptedOffers increased by one, every other field kept.
acceptOneMore(patient) == [patient EXCEPT !.acceptedOffers = @ + 1]

OfferInit ==
  /\ objects = <<>>
  /\ patients = <<>>
  /\ req = [r \in Requests |-> IdleRequest]
  /\ config \in WeightConfigs
  /\ subject \in OfferPatients
  /\ facility \in ScoringFacilities
  /\ results = <<>>
  /\ randomConsulted = FALSE
  /\ process = StartedProcess(0)

\* calculateScore of the patient.
CallBefore ==
  /\ results = <<>>
  /\ results' = << calculateScore(config, subject, facility, RInt(0)) >>
  /\ UNCHANGED <<objects, patients, req, config, subject, facility, randomConsulted,
               process>>

\* calculateScore of the patient with one more accepted offer.
CallAfter ==
  /\ Len(results) = 1
  /\ results' = << results[1],
                   calculateScore(config, acceptOneMore(subject), facility, RInt(0)) >>
  /\ UNCHANGED <<objects, patients, req, config, subject, facility, randomConsulted,
               process>>

OfferNext ==
  \/ CallBefore
  \/ CallAfter

OfferSpec == OfferInit /\ [][OfferNext]_vars

(***************************************************************************)
(* The process from startServer to its exit                                *)
(***************************************************************************)
ShutdownInit ==
  /\ objects = <<>>
  /\ patients = <<>>
  /\ req = [r \in Requests |-> IdleRequest]
  /\ config = ScoringService(NoPartial)
  /\ subject = <<>>
  /\ facility = Location(80, 0)
  /\ results = <<>>
  /\ randomConsulted = FALSE
  /\ \E connections \in 0..MaxConnections : process = StartedProcess(connections)

running == process.exitCode = -1

\* A client connects: only a listening server accepts.
Connect ==
  /\ running
  /\ process.server = "listening"
  /\ process.connections < MaxConnections
  /\ process' = [process EXCEPT !.connections = @ + 1]
  /\ UNCHANGED <<objects, patients, req, config, subject, facility, results,
                 randomConsulted>>

\* A connection ends.
Disconnect ==
  /\ running
  /\ process.connections > 0
  /\ process' = [process EXCEPT !.connections = @ - 1]
  /\ UNCHANGED <<objects, patients, req, config, subject, facility, results,
                 randomConsulted>>

\* SIGTERM, SIGINT, an uncaught exception or an unhandled rejection: the
\* handler installed by setupGracefulShutdown calls shutdown.
Signal(signal) ==
  /\ running
  /\ Len(process.signals) < MaxSignals
  /\ process.now + FORCE_SHUTDOWN_MS <= MaxTicks * TickMs
  /\ process' = shutdown(process, signal)
  /\ UNCHANGED <<objects, patients, req, config, subject, facility, results,
                 randomConsulted>>

\* The server has stopped listening and its last connection has ended: it
\* emits 'close'.
ServerClose ==
  /\ running
  /\ process.server = "closing"
  /\ process.connections = 0
  /\ process' = closeCallback(process)
  /\ UNCHANGED <<objects, patients, req, config, subject, facility, results,
                 randomConsulted>>

\* Time passes, unless a timer is due.
Tick ==
  /\ running
  /\ process.now < MaxTicks * TickMs
  /\ \A deadline \in process.timers : process.now < deadline
  /\ process' = [process EXCEPT !.now = @ + TickMs]
  /\ UNCHANGED <<objects, patients, req, config, subject, facility, results,
                 randomConsulted>>

\* A timer set by shutdown is due: its callback runs.
Timeout ==
  /\ running
  /\ \E deadline \in process.timers :
       /\ deadline <= process.now
       /\ process' = forceShutdown(process, deadline)
  /\ UNCHANGED <<objects, patients, req, config, subject, facility, results,
                 randomConsulted>>

ShutdownNext ==
  \/ Connect
  \/ Disconnect
  \/ \E signal \in Signals : Signal(signal)
  \/ ServerClose
  \/ Tick
  \/ Timeout

\* The event loop: time passes and a due timer's callback runs.
ShutdownSpec ==
  ShutdownInit /\ [][ShutdownNext]_vars /\ WF_vars(Tick) /\ WF_vars(Timeout)

(***************************************************************************)
(* Properties                                                              *)
(***************************************************************************)
totalInteractions(patient) == patient.acceptedOffers + patient.canceledOffers

lowData == totalInteractions(subject) < config.randomnessConfig.lowDataThreshold

InRange(lo, x, hi) == RLe(RInt(lo), x) /\ RLe(x, RInt(hi))

\* The unboosted finalScore of the subject.
subjectFinalScore == baseScores(config, subject, facility).finalScore

\* The scores calculateScore can return for the subject, over the draws.
subjectScores ==
  {calculateScore(config, subject, facility, rnd).score : rnd \in RandomValues}

\* C1: every score calculateScore returns, rounded to 2 decimals, satisfies
\* 1 <= score <= 10, whatever Math.random() yields.
C1_ScoreInRange == \A i \in DOMAIN results : InRange(1, results[i].score, 10)

\* A low-data patient whose unboosted score is below 9 and whom the boost
\* would take above 10: the score returned is 10.
C1_Witness ==
  /\ results # <<>>
  /\ config.randomnessConfig.enabled /\ lowData
  /\ RLt(subjectFinalScore, RInt(9))
  /\ results[Len(results)].score = RInt(10)

\* C2: a 200 response holds exactly min(N, 10) patients, N the number of
\* patients in the repository, in non-increasing order of score.
C2_TopTenDescending ==
  \A r \in Requests :
    (req[r].pc = "done" /\ req[r].response.status = 200) =>
      LET out == req[r].response.body.patients
      IN /\ Len(out) = (IF Len(patients) < 10 THEN Len(patients) ELSE 10)
         /\ \A i \in 1..(Len(out) - 1) : RLe(out[i + 1].score, out[i].score)

\* More than 10 patients in the repository: 10 are returned, and their scores
\* are not all the same.
C2_Witness ==
  \E r \in Requests :
    /\ req[r].pc = "done" /\ req[r].response.status = 200
    /\ Len(patients) > 10
    /\ Len(req[r].response.body.patients) = 10
    /\ RLt(req[r].response.body.patients[10].score,
           req[r].response.body.patients[1].score)

\* C3: a request whose body fails validation is answered 400 with a
\* "Validation failed" message, and neither findAll nor calculateScore is
\* invoked for it.
C3_InvalidBodyRejected ==
  \A r \in Requests :
    req[r].body \in InvalidBodies =>
      /\ req[r].pc = "done"
      /\ req[r].response.status = 400
      /\ req[r].response.body.error.statusCode = 400
      /\ req[r].response.body.error.message.prefix = "Validation failed"
      /\ req[r].response.body.error.message.issues # <<>>
      /\ req[r].findAllCalls = 0
      /\ req[r].scoreCalls = 0

\* A request with an out-of-range latitude has been answered, while the
\* repository holds patients.
C3_Witness ==
  \E r \in Requests :
    /\ req[r].body = LocationBody(JNum(91), JNum(-74))
    /\ req[r].pc = "done"
    /\ patients # <<>>

\* C4: with no patients in the repository, a valid request is answered 200
\* with an empty patients list.
C4_EmptyIsNotAnError ==
  \A r \in Requests :
    (patients = <<>> /\ req[r].pc = "done" /\ req[r].body \in ValidBodies) =>
      req[r].response = [status |-> 200, body |-> [patients |-> <<>>]]

\* A valid request has been answered from the empty repository.
C4_Witness ==
  \E r \in Requests :
    /\ patients = <<>>
    /\ req[r].pc = "done"
    /\ req[r].body \in ValidBodies
    /\ req[r].findAllCalls = 1

\* C5: no step changes a Patient object of the repository or the
\* repository's list.
C5_RepositoryUnchanged == [][objects' = objects /\ patients' = patients]_vars

\* Two requests have scored all the patients of a repository of more than 10.
C5_Witness ==
  /\ Len(patients) > 10
  /\ \A r \in Requests : req[r].pc = "done" /\ req[r].scoreCalls = Len(patients)

\* C6: for a patient with acceptedOffers + canceledOffers >= lowDataThreshold
\* every call returns the same score, and Math.random() is never called.
C6_HighDataDeterministic ==
  ~lowData =>
    /\ ~randomConsulted
    /\ \A i \in DOMAIN results : results[i].score = results[1].score

\* Two calls, randomness enabled, for a patient with exactly 20 interactions.
C6_Witness ==
  /\ config.randomnessConfig.enabled
  /\ totalInteractions(subject) = config.randomnessConfig.lowDataThreshold
  /\ Len(results) = 2

\* C7 as stated: for a patient with fewer than 20 interactions scored with
\* randomness enabled, more than one score is reachable over the draws.
C7_LowDataVaries ==
  (results # <<>> /\ config.randomnessConfig.enabled /\ lowData) =>
    Cardinality(subjectScores) > 1

\* C7 amended: the same, for a patient whose unboosted score is at least 1 and
\* rounds to less than 10.
C7_LowDataVariesUnclamped ==
  (/\ results # <<>>
   /\ config.randomnessConfig.enabled /\ lowData
   /\ RLe(RInt(1), subjectFinalScore)
   /\ RLt(toFixed2(subjectFinalScore), RInt(10))) =>
    Cardinality(subjectScores) > 1

\* Two calls for such a patient have returned different scores.
C7_Witness ==
  /\ config.randomnessConfig.enabled /\ lowData
  /\ RLe(RInt(1), subjectFinalScore)
  /\ RLt(toFixed2(subjectFinalScore), RInt(10))
  /\ Len(results) = 2
  /\ results[1].score # results[2].score

\* C8: with randomnessConfig.enabled = false every call returns the same
\* score, distance, demographicScore and behavioralScore, and Math.random()
\* is never called.
C8_DisabledDeterministic ==
  ~config.randomnessConfig.enabled =>
    /\ ~randomConsulted
    /\ \A i \in DOMAIN results :
         /\ results[i].score = results[1].score
         /\ results[i].distance = results[1].distance
         /\ results[i].demographicScore = results[1].demographicScore
         /\ results[i].behavioralScore = results[1].behavioralScore

\* Two calls, randomness disabled, for a patient with fewer than 20
\* interactions whose unboosted score is below 10.
C8_Witness ==
  /\ ~config.randomnessConfig.enabled /\ lowData
  /\ RLt(subjectFinalScore, RInt(9))
  /\ Len(results) = 2

\* C9: the demographicScore calculateScore reports satisfies
\* 0 <= demographicScore <= 10.
C9_DemographicScoreInRange ==
  \A i \in DOMAIN results : InRange(0, results[i].demographicScore, 10)

\* C10: the behavioralScore calculateScore reports satisfies
\* 0 <= behavioralScore <= 10.
C10_BehavioralScoreInRange ==
  \A i \in DOMAIN results : InRange(0, results[i].behavioralScore, 10)

\* A patient who accepted every one of MaxOffers offers and replies within
\* 300 s: behavioralScore is 10.
C10_Witness ==
  /\ results # <<>>
  /\ subject.acceptedOffers = MaxOffers /\ subject.canceledOffers = 0
  /\ results[1].behavioralScore = RInt(10)

\* What execute returns when it runs alone on the repository.
executeAlone(facilityLocation) ==
  okResponse(slice(sort(mapCalculateScore(findAll(patients), facilityLocation, <<>>))))

\* The repository's patient with the given id.
patientWithId(id) == objects[CHOOSE o \in DOMAIN objects : objects[o].id = id]

\* C11: with randomness disabled, the response of every invocation, however
\* interleaved with others, is the response of execute run alone on the same
\* repository and facility, and each entry is what calculateScore gives for
\* that patient alone.
C11_InterleavingIndependent ==
  \A r \in Requests :
    (req[r].pc = "done" /\ req[r].response.status = 200) =>
      /\ req[r].response = executeAlone(req[r].facilityLocation)
      /\ \A i \in DOMAIN req[r].response.body.patients :
           req[r].response.body.patients[i] =
             toDTO(calculateScore(config,
                                  patientWithId(req[r].response.body.patients[i].id),
                                  req[r].facilityLocation, RInt(0)))

\* An invocation has resumed while another was suspended at its await, and
\* invocations for different facilities have all finished.
C11_Witness ==
  /\ results = << "interleaved" >>
  /\ Len(patients) > 1
  /\ \A r \in Requests : req[r].pc = "done" /\ req[r].response.status = 200
  /\ \E r, q \in Requests : req[q].facilityLocation # req[r].facilityLocation

\* What calculateScore returns for the subject with randomness disabled.
subjectUnboosted ==
  calculateScore(ScoringService(RandomnessDisabled), subject, facility, RInt(0))

\* C12: with the default weights and a distance of at most 10 km,
\* demographicScore is exactly 10 when the age is within 30..65 and below 10
\* for every other age; the random boost never changes demographicScore.
C12_DemographicTen ==
  \A i \in DOMAIN results :
    /\ results[i].demographicScore = subjectUnboosted.demographicScore
    /\ RLe(calculate(subject.location, facility), RInt(10)) =>
         IF subject.age \in 30..65
         THEN results[i].demographicScore = RInt(10)
         ELSE RLt(results[i].demographicScore, RInt(10))

\* A boosted call for a patient of age 30 located at the facility.
C12_Witness ==
  /\ results # <<>>
  /\ subject.age = 30
  /\ RLe(calculate(subject.location, facility), RInt(10))
  /\ results[1].demographicScore = RInt(10)
  /\ randomConsulted
  /\ results[1].score # subjectUnboosted.score

\* C13: a patient with no accepted offers, at least 5 canceled offers and a
\* reply time above 3600 s gets behavioralScore < 5 and score < 5, whatever
\* the age, the distance and the random draw.
C13_PoorBehaviorScoresLow ==
  (/\ subject.acceptedOffers = 0
   /\ subject.canceledOffers >= 5
   /\ subject.averageReplyTime > 3600) =>
    \A i \in DOMAIN results :
      /\ RLt(results[i].behavioralScore, RInt(5))
      /\ RLt(results[i].score, RInt(5))

\* Such a patient, of the best age and at the facility, has been given a boost.
C13_Witness ==
  /\ results # <<>>
  /\ subject.acceptedOffers = 0
  /\ subject.canceledOffers >= 5
  /\ subject.averageReplyTime = MaxReplyTime
  /\ subject.age = 30
  /\ subject.location = facility
  /\ RLt(subjectUnboosted.score, results[1].score)

\* C14: calculate(a, b) = calculate(b, a) exactly.
C14_DistanceCommutative == results # <<>> => results[1] = results[2]

\* The two calls for points that differ in latitude and in longitude.
C14_Witness ==
  /\ results # <<>>
  /\ subject.location.latitude # facility.latitude
  /\ subject.location.longitude # facility.longitude
  /\ RLt(RInt(1000), results[1])

\* C15: calculate(a, a) = 0 exactly, and a patient at the facility gets the
\* top distance score.
C15_DistanceToSelfZero ==
  (results # <<>> /\ subject.location = facility) =>
    /\ results[1] = RInt(0)
    /\ calculateDistanceScore(results[1]) = RInt(10)

\* The call for a point off the equator and off the prime meridian.
C15_Witness ==
  /\ results # <<>>
  /\ subject.location = facility
  /\ facility.latitude # 0 /\ facility.longitude # 0
  /\ results[1] = RInt(0)

\* The patients request r returned, and the ids among them.
returned(r) == req[r].response.body.patients

returnedIds(r) == {returned(r)[i].id : i \in DOMAIN returned(r)}

\* The place of the candidate with the given id in what findAll returned to
\* request r.
sourceIndex(r, id) ==
  CHOOSE k \in DOMAIN req[r].scoredPatients : req[r].scoredPatients[k].id = id

\* C16: over more than 10 candidates, the returned entries are distinct
\* candidates with the scores computed in that invocation, and each has a score
\* >= the score of every candidate not returned.
C16_TopTenAreBest ==
  \A r \in Requests :
    (/\ req[r].pc = "done" /\ req[r].response.status = 200
     /\ Len(req[r].scoredPatients) > 10) =>
      /\ \A i, j \in DOMAIN returned(r) :
           i # j => returned(r)[i].id # returned(r)[j].id
      /\ \A i \in DOMAIN returned(r) :
           \E k \in DOMAIN req[r].scoredPatients :
             /\ req[r].scoredPatients[k].id = returned(r)[i].id
             /\ req[r].scoredPatients[k].score = returned(r)[i].score
      /\ \A k \in DOMAIN req[r].scoredPatients :
           req[r].scoredPatients[k].id \notin returnedIds(r) =>
             \A i \in DOMAIN returned(r) :
               RLe(req[r].scoredPatients[k].score, returned(r)[i].score)

\* The candidate left out scores strictly less than every returned one and is
\* not the last of the repository.
C16_Witness ==
  \E r \in Requests :
    /\ req[r].pc = "done" /\ req[r].response.status = 200
    /\ Len(req[r].scoredPatients) > 10
    /\ \E k \in 1..10 :
         /\ req[r].scoredPatients[k].id \notin returnedIds(r)
         /\ \A i \in DOMAIN returned(r) :
              RLt(req[r].scoredPatients[k].score, returned(r)[i].score)

\* C17: returned patients with equal score are in the order of the sequence
\* findAll returned, and of the candidates that tie at the cut-off the
\* earliest in that sequence are the ones returned.
C17_TiesKeepSourceOrder ==
  \A r \in Requests :
    (req[r].pc = "done" /\ req[r].response.status = 200) =>
      /\ \A i, j \in DOMAIN returned(r) :
           (i < j /\ returned(r)[i].score = returned(r)[j].score) =>
             sourceIndex(r, returned(r)[i].id) < sourceIndex(r, returned(r)[j].id)
      /\ \A k \in DOMAIN req[r].scoredPatients :
           req[r].scoredPatients[k].id \notin returnedIds(r) =>
             \A i \in DOMAIN returned(r) :
               returned(r)[i].score = req[r].scoredPatients[k].score =>
                 sourceIndex(r, returned(r)[i].id) < k

\* Two returned patients tie, and the candidate left out ties with the last
\* one returned.
C17_Witness ==
  \E r \in Requests :
    /\ req[r].pc = "done" /\ req[r].response.status = 200
    /\ Len(returned(r)) = 10
    /\ \E i \in 1..8 : returned(r)[i].score = returned(r)[i + 1].score
    /\ \E k \in DOMAIN req[r].scoredPatients :
         /\ req[r].scoredPatients[k].id \notin returnedIds(r)
         /\ req[r].scoredPatients[k].score = returned(r)[10].score

\* C18: for a patient with fewer than lowDataThreshold interactions and
\* randomness enabled, the score before the clamp is finalScore + r * 2 for
\* the draw r in [0, 1), and the score returned is at least the score with
\* randomness disabled and at most 2 above it.
C18_BoostBounds ==
  (results # <<>> /\ config.randomnessConfig.enabled /\ lowData) =>
    /\ \A rnd \in RandomValues :
         /\ RLe(RInt(0), rnd) /\ RLt(rnd, RInt(1))
         /\ applyRandomnessBoost(config, subject, subjectFinalScore, rnd).score
              = RAdd(subjectFinalScore, RMul(rnd, RInt(2)))
    /\ \A i \in DOMAIN results :
         /\ RLe(subjectUnboosted.score, results[i].score)
         /\ RLe(RSub(results[i].score, subjectUnboosted.score), RInt(2))

\* A call has returned more than 1 point above the score without randomness.
C18_Witness ==
  /\ config.randomnessConfig.enabled /\ lowData
  /\ results # <<>>
  /\ RLt(RInt(1), RSub(results[1].score, subjectUnboosted.score))

\* C19: the age score is 10 for 30 <= age <= 65, 6 + age/15 (in [6, 8)) for
\* age < 30 and 10 - 3 (age - 65)/35 for age > 65, where it strictly
\* decreases with age; it jumps from below 8 at age 29 to 10 at age 30.
C19_AgeScoreFormula ==
  results # <<>> =>
    /\ subject.age < 30 =>
         /\ results[1] = Rat(90 + subject.age, 15)
         /\ RLe(RInt(6), results[1]) /\ RLt(results[1], RInt(8))
    /\ subject.age \in 30..65 => results[1] = RInt(10)
    /\ subject.age > 65 =>
         /\ results[1] = Rat(545 - 3 * subject.age, 35)
         /\ RLt(results[2], results[1])
    /\ subject.age = 29 => RLt(results[1], RInt(8)) /\ results[2] = RInt(10)

\* The call for age 29: 7.93..., and 10 one year later.
C19_Witness ==
  /\ results # <<>>
  /\ subject.age = 29
  /\ results[1] = Rat(119, 15)
  /\ results[2] = RInt(10)

\* C20: calculateAgeScore returns a score between 6 and 10 for every age:
\* 6-8 below 30, 10 for 30..65, 7-10 above 65.
C20_AgeScoreDocumentedRange ==
  results # <<>> =>
    /\ InRange(6, results[1], 10)
    /\ subject.age < 30 => InRange(6, results[1], 8)
    /\ subject.age \in 30..65 => results[1] = RInt(10)
    /\ subject.age > 65 => InRange(7, results[1], 10)

\* C21: the distance score is 10 up to 10 km, 9 up to 25 km, 7 up to 50 km,
\* 5 up to 100 km (each bound included) and 3 beyond; it never grows with the
\* distance and is one of 3, 5, 7, 9, 10.
C21_DistanceScoreSteps ==
  results # <<>> =>
    LET d == subject.distanceKm
    IN /\ RLe(d, RInt(10)) => results[1] = RInt(10)
       /\ RLt(RInt(10), d) /\ RLe(d, RInt(25)) => results[1] = RInt(9)
       /\ RLt(RInt(25), d) /\ RLe(d, RInt(50)) => results[1] = RInt(7)
       /\ RLt(RInt(50), d) /\ RLe(d, RInt(100)) => results[1] = RInt(5)
       /\ RLt(RInt(100), d) => results[1] = RInt(3)
       /\ results[1] \in {RInt(3), RInt(5), RInt(7), RInt(9), RInt(10)}
       /\ RLe(results[2], results[1])

\* The call for exactly 25 km: 9, and 7 half a km further.
C21_Witness ==
  /\ results # <<>>
  /\ subject.distanceKm = RInt(25)
  /\ results[1] = RInt(9)
  /\ results[2] = RInt(7)

\* C22: the acceptance-rate score is 5 when acceptedOffers + canceledOffers
\* is below 5 (0 included) and acceptedOffers / total * 10 otherwise, a value
\* between 0 and 10.
C22_AcceptanceRateScore ==
  results # <<>> =>
    LET total == subject.acceptedOffers + subject.canceledOffers
    IN /\ total < 5 => results[1] = RInt(5)
       /\ total >= 5 =>
            /\ results[1] = Rat(10 * subject.acceptedOffers, total)
            /\ InRange(0, results[1], 10)

\* The call for a patient without any offer: 5.
C22_Witness ==
  /\ results # <<>>
  /\ subject.acceptedOffers = 0 /\ subject.canceledOffers = 0
  /\ results[1] = RInt(5)

\* C23: the response-time score is 10 up to 300 s, 8 up to 900 s, 6 up to
\* 1800 s, 4 up to 3600 s (each bound included) and 2 beyond; it never grows
\* with the reply time, and a reply time of 0 gives 10.
C23_ResponseTimeSteps ==
  results # <<>> =>
    LET t == subject.averageReplyTime
    IN /\ t <= 300 => results[1] = RInt(10)
       /\ 300 < t /\ t <= 900 => results[1] = RInt(8)
       /\ 900 < t /\ t <= 1800 => results[1] = RInt(6)
       /\ 1800 < t /\ t <= 3600 => results[1] = RInt(4)
       /\ 3600 < t => results[1] = RInt(2)
       /\ RLe(results[2], results[1])
       /\ t = 0 => results[1] = RInt(10)

\* The call for exactly 3600 s: 4, and 2 one second later.
C23_Witness ==
  /\ results # <<>>
  /\ subject.averageReplyTime = 3600
  /\ results[1] = RInt(4)
  /\ results[2] = RInt(2)

\* The results of a service with scaled weights, next to the configured one.
scaledCall == Len(results) = 2 /\ "factor" \in DOMAIN results[2]

\* The results of a service with other acceptedOffers and canceledOffers
\* weights, next to the configured one.
splitCall == Len(results) = 2 /\ "weights" \in DOMAIN results[2]

\* |x - y| <= 1/100
WithinOneCent(x, y) == RLe(RSub(x, y), Rat(1, 100)) /\ RLe(RSub(y, x), Rat(1, 100))

\* The score reported is demographicScore * 0.2 + behavioralScore * 0.8 of
\* the values reported, up to the rounding to two decimals.
FixedSplit(scored) ==
  WithinOneCent(scored.score,
                RAdd(RMul(scored.demographicScore, Rat(2, 10)),
                     RMul(scored.behavioralScore, Rat(8, 10))))

SameScores(a, b) ==
  /\ a.score = b.score
  /\ a.demographicScore = b.demographicScore
  /\ a.behavioralScore = b.behavioralScore

CloseScores(a, b) ==
  /\ WithinOneCent(a.score, b.score)
  /\ WithinOneCent(a.demographicScore, b.demographicScore)
  /\ WithinOneCent(a.behavioralScore, b.behavioralScore)

offersWeight(weights) ==
  DAdd(DRat(weights.behavioral.acceptedOffers), DRat(weights.behavioral.canceledOffers))

\* The two behavioral offer weights exchanged.
swapped(weights) ==
  [weights EXCEPT !.behavioral.acceptedOffers = weights.behavioral.canceledOffers,
                  !.behavioral.canceledOffers = weights.behavioral.acceptedOffers]

\* C25: two configs with the same acceptedOffers weight + canceledOffers
\* weight and the same averageReplyTime weight give every patient the same
\* behavioralScore and the same score (randomness disabled).
C25_SameSumSameScores ==
  splitCall =>
    /\ results[1].scored.behavioralScore = results[2].scored.behavioralScore
    /\ results[1].scored.score = results[2].scored.score

\* C25 as it holds: the same behavioralScore and score when the two sums
\* are the same number as the service adds them (in particular when the two
\* weights are exchanged); at most 0.01 apart when the sums are equal as
\* decimals only.
C25_SameComputedSum ==
  splitCall =>
    /\ offersWeight(results[1].weights) = offersWeight(results[2].weights) =>
         SameScores(results[1].scored, results[2].scored)
    /\ results[2].weights = swapped(results[1].weights) =>
         SameScores(results[1].scored, results[2].scored)
    /\ CloseScores(results[1].scored, results[2].scored)

\* Weights 0.5 and 0.1 exchanged for a patient whose acceptance rate is not
\* neutral: the same scores.
C25_Witness ==
  /\ splitCall
  /\ results[1].weights.behavioral.acceptedOffers = Rat(5, 10)
  /\ results[2].weights.behavioral.acceptedOffers = Rat(1, 10)
  /\ results[2].weights = swapped(results[1].weights)
  /\ subject.acceptedOffers = 1 /\ subject.canceledOffers = 11
  /\ SameScores(results[1].scored, results[2].scored)

\* The field of the constructed sub-object is the one given, or else value.
GivenOr(given, constructed, field, value) ==
  constructed[field] = IF field \in DOMAIN given THEN given[field] ELSE value

\* C26: a service constructed with a partial config holds the fields given
\* and, for every field not given, the default: age 0.1, distance 0.1,
\* acceptedOffers 0.3, canceledOffers 0.3, averageReplyTime 0.2, enabled
\* true, maxBoost 0.2, lowDataThreshold 20; a sub-object not given is the
\* default one.
C26_PartialConfigMerged ==
  config # <<>> =>
    /\ DOMAIN config = {"weights", "randomnessConfig"}
    /\ DOMAIN config.weights = {"demographic", "behavioral"}
    /\ DOMAIN config.weights.demographic = {"age", "distance"}
    /\ DOMAIN config.weights.behavioral =
         {"acceptedOffers", "canceledOffers", "averageReplyTime"}
    /\ DOMAIN config.randomnessConfig = {"enabled", "maxBoost", "lowDataThreshold"}
    /\ GivenOr(subject.demographic, config.weights.demographic, "age", Rat(1, 10))
    /\ GivenOr(subject.demographic, config.weights.demographic, "distance", Rat(1, 10))
    /\ GivenOr(subject.behavioral, config.weights.behavioral, "acceptedOffers", Rat(3, 10))
    /\ GivenOr(subject.behavioral, config.weights.behavioral, "canceledOffers", Rat(3, 10))
    /\ GivenOr(subject.behavioral, config.weights.behavioral, "averageReplyTime", Rat(2, 10))
    /\ GivenOr(subject.randomnessConfig, config.randomnessConfig, "enabled", TRUE)
    /\ GivenOr(subject.randomnessConfig, config.randomnessConfig, "maxBoost", Rat(2, 10))
    /\ GivenOr(subject.randomnessConfig, config.randomnessConfig, "lowDataThreshold", 20)

\* Constructed with { randomnessConfig: { maxBoost: 0.15 } }: enabled and
\* lowDataThreshold keep their defaults, and so do all the weights.
C26_Witness ==
  /\ config # <<>>
  /\ subject = [demographic |-> Absent, behavioral |-> Absent,
                randomnessConfig |-> [maxBoost |-> Rat(15, 100)]]
  /\ config.randomnessConfig =
       [enabled |-> TRUE, maxBoost |-> Rat(15, 100), lowDataThreshold |-> 20]
  /\ config.weights = defaultConfig.weights

\* C27: errorHandler sends exactly one response; for an AppError it carries
\* the statusCode and the message of the error, for any other error it is
\* status 500 with the message "Internal server error", whatever the
\* message of the error.
C27_OneErrorResponse ==
  results # <<>> =>
    /\ Len(results) = 1
    /\ subject.isAppError =>
         /\ results[1].status = subject.statusCode
         /\ results[1].body.error.statusCode = subject.statusCode
         /\ results[1].body.error.message = subject.message
    /\ ~subject.isAppError =>
         /\ results[1] =
              [status |-> 500,
               body   |-> [error |-> [message |-> Message("Internal server error"),
                                      statusCode |-> 500]]]
         /\ results[1].body.error.message # subject.message

\* An error that is not an AppError, answered by 500 without its message.
C27_Witness ==
  /\ results # <<>>
  /\ subject = Error(Message("ENOENT: no such file or directory"))
  /\ results[1].status = 500
  /\ results[1].body.error.message = Message("Internal server error")

signalled == process.signals # <<>>

\* 30 s after the first signal.
firstDeadline == process.signals[1].at + FORCE_SHUTDOWN_MS

\* Exit code 0 only once the server has closed; no exit without a signal and
\* a requested server.close; exit code 1 only when the server has not closed
\* 30 s after a signal; and a signalled process does not run beyond that.
ShutdownSafe ==
  /\ process.exitCode = 0 => process.server = "closed"
  /\ ~running => signalled /\ process.server # "listening"
  /\ process.exitCode = 1 =>
       /\ process.server = "closing"
       /\ process.now = firstDeadline
  /\ running /\ signalled => process.now <= firstDeadline

\* C28: after SIGTERM, SIGINT, an uncaught exception or an unhandled
\* rejection the process eventually exits: server.close is requested first,
\* the exit code is 0 when the server has closed and 1 when it has not closed
\* 30 s after the signal; the process never exits with code 0 before the
\* server has closed.
C28_SignalLeadsToExit == [](ShutdownSafe) /\ (signalled ~> ~running)

\* A connection that never ends: the process exits with code 1, 30 s after
\* the signal.
C28_Witness ==
  /\ process.exitCode = 1
  /\ process.connections > 0
  /\ Len(process.signals) = 1
  /\ process.signals[1].signal = "SIGTERM"
  /\ process.now = process.signals[1].at + FORCE_SHUTDOWN_MS

\* demographicScore * 0.2 + behavioralScore * 0.8 of the fields returned.
reportedCombination(scored) ==
  RAdd(RMul(scored.demographicScore, Rat(2, 10)),
       RMul(scored.behavioralScore, Rat(8, 10)))

\* score - (demographicScore * 0.2 + behavioralScore * 0.8)
excess(scored) == RSub(scored.score, reportedCombination(scored))

\* maxBoost * 10
largestBoost == RMul(config.randomnessConfig.maxBoost, RInt(10))

\* Every field but score is the same in each ScoredPatient returned.
SameButScore ==
  \A i \in DOMAIN results :
    /\ results[i].distance = results[1].distance
    /\ results[i].demographicScore = results[1].demographicScore
    /\ results[i].behavioralScore = results[1].behavioralScore
    /\ Spread(results[i], [score |-> RInt(0)]) = Spread(results[1], [score |-> RInt(0)])

fallsAtThreshold == totalInteractions(subject) = 4 /\ subject.acceptedOffers <= 1

\* The statement as given: the score with one more accepted offer is never
\* lower, whatever the number of offers.
C30_NeverLowers ==
  Len(results) = 2 => RLe(results[1].score, results[2].score)

\* C30: with randomness disabled, the score of a patient with one more
\* accepted offer and every other field the same is not lower, unless the
\* increment takes the patient from 4 offers to 5 with at most 1 accepted
\* before it (the acceptance score goes from the neutral 5 to 2 or 4).
C30_NeverLowersButAtThreshold ==
  (Len(results) = 2 /\ ~fallsAtThreshold) =>
    RLe(results[1].score, results[2].score)

\* The increment crosses the threshold with 2 offers accepted before it and
\* the score rises.
C30_Witness ==
  /\ Len(results) = 2
  /\ totalInteractions(subject) = 4
  /\ subject.acceptedOffers = 2
  /\ RLt(results[1].score, results[2].score)

====
